---- MODULE Spec2Model ----
(***************************************************************************)
(* A model of wrecv's client session engine (src/src/client), the header   *)
(* framer (src/src/http/parse.rs) and the connection pool                  *)
(* (src/src/client/pool.rs).                                               *)
(*                                                                         *)
(* One session runs synchronously: Client::submit builds a CurlSession,    *)
(* wait() runs set_up and perform_with_callbacks; while the transport's    *)
(* perform call is running it invokes the five registered callbacks in any *)
(* order, and each callback calls the caller's SessionHandler, whose       *)
(* behaviour (accept, abort, return an error) is arbitrary.                *)
(*                                                                         *)
(* Option<T> is written as a sequence: None == <<>>, Some(x) == <<x>>.     *)
(* Result<(), E> is written as Option<E>: Ok == None, Err(e) == Some(e).   *)
(***************************************************************************)
EXTENDS Integers, Sequences, FiniteSets, Bags, TLC

None == <<>>
Some(x) == <<x>>
IsSome(o) == Len(o) = 1
Unwrap(o) == o[1]
Ok == None
Err(e) == Some(e)

(***************************************************************************)
(* Bounds of the model.                                                    *)
(***************************************************************************)
\* Header bytes a session accumulates in one buffer before the transport
\* stops delivering header chunks that would be accumulated.
MaxBuf == 10
\* Longest content buffer handed to the upload and download callbacks.
MaxLen == 1

(***************************************************************************)
(* Bytes.  Header lines are abstracted to one byte per line body: 'G' is   *)
(* the body of a well-formed request line, 'H' the body of a well-formed   *)
(* status line, 'A' the body of a well-formed field line.  The whitespace  *)
(* bytes are themselves.                                                   *)
(***************************************************************************)
LF == 10
CR == 13
RequestLineByte == 71
StatusLineByte == 72
FieldLineByte == 65
ContentByte == 120

RequestLine == <<RequestLineByte, CR, LF>>
StatusLine == <<StatusLineByte, CR, LF>>
FieldLine == <<FieldLineByte, CR, LF>>
BlankLine == <<CR, LF>>

\* Header chunks the transport reports as sent (debug callback, HeaderOut)
SendChunks == {RequestLine, FieldLine, BlankLine}
\* Header chunks the transport reports as received (header callback)
RecvChunks == {StatusLine, FieldLine, BlankLine}
\* Content delivered to the download callback, and body bytes reported
Contents == {[i \in 1..n |-> ContentByte] : n \in 0..MaxLen}

(***************************************************************************)
(* src/src/http/parse.rs                                                   *)
(***************************************************************************)
is_ascii_whitespace(b) == b \in {9, 10, 12, 13, 32}

FirstNewline(data) ==
    IF \E i \in 1..Len(data) : data[i] = LF
    THEN CHOOSE i \in 1..Len(data) :
            data[i] = LF /\ \A j \in 1..(i - 1) : data[j] # LF
    ELSE 0

RECURSIVE split_inclusive(_)
split_inclusive(data) ==
    IF data = <<>> THEN <<>>
    ELSE LET i == FirstNewline(data) IN
         IF i = 0 THEN <<data>>
         ELSE <<SubSeq(data, 1, i)>> \o split_inclusive(SubSeq(data, i + 1, Len(data)))

ends_with_newline(line) == Len(line) > 0 /\ line[Len(line)] = LF

\* The scan taking a last line of whitespace for a boundary before its
\* newline has come
RECURSIVE ScanLines_without_newline_test(_, _)
ScanLines_without_newline_test(lines, index) ==
    IF lines = <<>> THEN None
    ELSE IF \A k \in 1..Len(Head(lines)) : is_ascii_whitespace(Head(lines)[k])
    THEN Some(index + Len(Head(lines)))
    ELSE ScanLines_without_newline_test(Tail(lines), index + Len(Head(lines)))

\* The scan reporting the last line of whitespace instead of the first
RECURSIVE ScanLines_to_last(_, _)
ScanLines_to_last(lines, index) ==
    IF lines = <<>> THEN None
    ELSE IF IsSome(ScanLines_to_last(Tail(lines), index + Len(Head(lines))))
    THEN ScanLines_to_last(Tail(lines), index + Len(Head(lines)))
    ELSE IF (\A k \in 1..Len(Head(lines)) : is_ascii_whitespace(Head(lines)[k]))
            /\ ends_with_newline(Head(lines))
    THEN Some(index + Len(Head(lines)))
    ELSE None

RECURSIVE ScanLines(_, _)
ScanLines(lines, index) ==
    IF lines = <<>> THEN None
    ELSE LET line == Head(lines)
             next == index + Len(line)
         IN IF (\A k \in 1..Len(line) : is_ascii_whitespace(line[k]))
                /\ ends_with_newline(line)
            THEN Some(next)
            ELSE ScanLines(Tail(lines), next)

scan_header_boundary(data) == ScanLines(split_inclusive(data), 0)

(***************************************************************************)
(* The httparse crate, as parse.rs uses it: a block is Complete on its     *)
(* terminating empty line, Partial when the bytes end before it, and an    *)
(* Error on a malformed line.  Request and response parsing skip leading   *)
(* empty lines; parse_headers does not.                                    *)
(***************************************************************************)
LineBody(line) ==
    LET n == Len(line)
        a == IF ends_with_newline(line) THEN SubSeq(line, 1, n - 1) ELSE line
    IN IF Len(a) > 0 /\ a[Len(a)] = CR THEN SubSeq(a, 1, Len(a) - 1) ELSE a

RECURSIVE HttparseHeaderLines(_, _)
HttparseHeaderLines(lines, fields) ==
    IF lines = <<>> THEN [status |-> "Partial", fields |-> <<>>]
    ELSE LET line == Head(lines)
             body == LineBody(line)
         IN IF body # <<>> /\ body # <<FieldLineByte>>
            THEN [status |-> "Error", fields |-> <<>>]
            ELSE IF ~ends_with_newline(line)
            THEN [status |-> "Partial", fields |-> <<>>]
            ELSE IF body = <<>>
            THEN [status |-> "Complete", fields |-> fields]
            ELSE HttparseHeaderLines(Tail(lines), Append(fields, body))

RECURSIVE SkipEmptyLines(_)
SkipEmptyLines(lines) ==
    IF lines # <<>> /\ ends_with_newline(Head(lines)) /\ LineBody(Head(lines)) = <<>>
    THEN SkipEmptyLines(Tail(lines))
    ELSE lines

HttparseStartLine(data, startByte) ==
    LET lines == SkipEmptyLines(split_inclusive(data)) IN
    IF lines = <<>> THEN [status |-> "Partial", fields |-> <<>>]
    ELSE IF LineBody(Head(lines)) # <<>> /\ LineBody(Head(lines)) # <<startByte>>
    THEN [status |-> "Error", fields |-> <<>>]
    ELSE IF ~ends_with_newline(Head(lines)) \/ LineBody(Head(lines)) = <<>>
    THEN [status |-> "Partial", fields |-> <<>>]
    ELSE HttparseHeaderLines(Tail(lines), <<>>)

\* ParseError::new(reason), boxed
ParseError(reason) == [source |-> "parse", on |-> reason]

\* Result<RequestHeader, Error>: err is Some(ParseError) or None
parse_request_header(data) ==
    LET status == HttparseStartLine(data, RequestLineByte) IN
    CASE status.status = "Complete" ->
            [err |-> None,
             header |-> [start_line |-> <<RequestLineByte>>, fields |-> status.fields]]
      [] status.status = "Partial" ->
            [err |-> Some(ParseError("HTTP request header incomplete")), header |-> None]
      [] OTHER ->
            [err |-> Some(ParseError("HTTP request header parse error")), header |-> None]

parse_response_header(data) ==
    LET status == HttparseStartLine(data, StatusLineByte) IN
    CASE status.status = "Complete" ->
            [err |-> None,
             header |-> [start_line |-> <<StatusLineByte>>, fields |-> status.fields]]
      [] status.status = "Partial" ->
            [err |-> Some(ParseError("HTTP response header incomplete")), header |-> None]
      [] OTHER ->
            [err |-> Some(ParseError("HTTP response header parse error")), header |-> None]

parse_response_trailer(data) ==
    LET status == HttparseHeaderLines(split_inclusive(data), <<>>) IN
    CASE status.status = "Complete" ->
            [err |-> None, header |-> [fields |-> status.fields]]
      [] status.status = "Partial" ->
            [err |-> Some(ParseError("HTTP header fields incomplete")), header |-> None]
      [] OTHER ->
            [err |-> Some(ParseError("HTTP header fields parse error")), header |-> None]

(***************************************************************************)
(* src/src/client/pool.rs                                                  *)
(***************************************************************************)
MAX_HANDLES == 20

\* Easy::new(): a handle with every option at its default
EasyNew == [options |-> {}]
\* Easy::reset() that leaves the options as they are
EasyReset_keeping_options(h) == h

\* Easy::reset()
EasyReset(h) == [h EXCEPT !.options = {}]

\* get_curl_handle handing out the last handle and leaving it in the pool
get_curl_handle_sharing(handles) ==
    IF handles # <<>>
    THEN [handle |-> EasyReset(handles[Len(handles)]), handles |-> handles]
    ELSE [handle |-> EasyNew, handles |-> handles]

\* ConnectionPool::get_curl_handle: pop and reset, or construct
get_curl_handle(handles) ==
    IF handles # <<>>
    THEN [handle |-> EasyReset(handles[Len(handles)]),
          handles |-> SubSeq(handles, 1, Len(handles) - 1)]
    ELSE [handle |-> EasyNew, handles |-> handles]

\* put_curl_handle, pushing also when the pool holds MAX_HANDLES
put_curl_handle_past_capacity(handles, curl_handle) ==
    IF Len(handles) <= MAX_HANDLES THEN Append(handles, curl_handle) ELSE handles

\* ConnectionPool::put_curl_handle: push unless full
put_curl_handle(handles, curl_handle) ==
    IF Len(handles) < MAX_HANDLES THEN Append(handles, curl_handle) ELSE handles

(***************************************************************************)
(* The caller's SessionHandler (src/src/client/common.rs).  Its behaviour  *)
(* on one call is an outcome: whether it calls control.abort(), and the    *)
(* error it returns, if any.  The handler object remembers the events      *)
(* delivered to it during the current callback and every structured event  *)
(* delivered during the session.                                           *)
(***************************************************************************)
Outcomes == [abort : BOOLEAN, fail : BOOLEAN]
UploadOutcomes == [abort : BOOLEAN, fail : BOOLEAN, size : 0..MaxLen]
Accept == [abort |-> FALSE, fail |-> FALSE]

\* The error a handler returns from a call: one error value per entry point
\* and event type
HandlerError(on) == [source |-> "handler", on |-> on]

NewHandler == [delivered |-> <<>>, structured |-> <<>>]

StructuredTypes == {"HttpRequest", "HttpResponse", "HttpResponseTrailer"}

\* CurlSessionControl::abort
abort(control) == [control EXCEPT !.aborted = TRUE]

\* SessionHandler::event, as an arbitrary implementation behaves
handler_event(self, event, o) ==
    [self |-> [self EXCEPT
                 !.handler.delivered = Append(@, event),
                 !.handler.structured =
                     IF event.type \in StructuredTypes THEN Append(@, event) ELSE @,
                 !.control = IF o.abort THEN abort(@) ELSE @],
     result |-> IF o.fail THEN Err(HandlerError(event.type)) ELSE Ok]

\* SessionHandler::upload_content, as an arbitrary implementation behaves
handler_upload_content(self, u) ==
    [self |-> [self EXCEPT !.control = IF u.abort THEN abort(@) ELSE @],
     result |-> IF u.fail THEN Err(HandlerError("upload_content")) ELSE Ok,
     size |-> u.size]

(***************************************************************************)
(* src/src/client/curl.rs: CallbackHandler                                 *)
(***************************************************************************)
\* A CallbackHandler that frames headers whatever the mode
CallbackHandler_new_framing(handler, mode) ==
    [handler |-> handler,
     control |-> [aborted |-> FALSE],
     error |-> None,
     state |-> "HttpRequest",
     receive_buf |-> <<>>,
     send_buf |-> <<>>]

CallbackHandler_new(handler, mode) ==
    [handler |-> handler,
     control |-> [aborted |-> FALSE],
     error |-> None,
     state |-> IF mode = "Http" THEN "HttpRequest" ELSE "Ftp",
     receive_buf |-> <<>>,
     send_buf |-> <<>>]

\* The diagnostic lines of the transport: text is a record of what the
\* pattern "Connected to .+ \(([0-9.:]+)\) port (\d+)" finds in it.
LogLines ==
    {[matches |-> FALSE, address |-> "", port |-> 0],
     [matches |-> TRUE, address |-> "127.0.0.1", port |-> 39753],
     [matches |-> TRUE, address |-> "1.2.3", port |-> 80],
     [matches |-> TRUE, address |-> "127.0.0.1", port |-> 70000]}
ValidIpAddrs == {"127.0.0.1"}
U16_MAX == 65535

parse_connect_address(text) ==
    IF text.matches
    THEN IF text.address \notin ValidIpAddrs THEN None
         ELSE IF text.port > U16_MAX THEN None
         ELSE Some([ip |-> text.address, port |-> text.port])
    ELSE None

\* Ok(()) with the CallbackHandler as the call left it
Done(self) == [self |-> self, result |-> Ok]

\* "let v = e;" : v is evaluated once
Bind(e, K(_)) == CHOOSE y \in {K(v) : v \in {e}} : TRUE

\* "e?;" : an Err leaves the function at once, with the CallbackHandler as the
\* failed call left it
Try(e, K(_)) ==
    CHOOSE y \in {IF v.result # Ok THEN v ELSE K(v.self) : v \in {e}} : TRUE

\* find_and_emit_connect_event failing on a line it cannot read an address from
find_and_emit_connect_event_reporting(self, text, o) ==
    Bind(parse_connect_address(text), LAMBDA address :
        IF IsSome(address)
        THEN handler_event(self, [type |-> "Connected", address |-> Unwrap(address)], o)
        ELSE IF text.matches
        THEN [self |-> self, result |-> Err(ParseError("curl info parse"))]
        ELSE Done(self))

find_and_emit_connect_event(self, text, o) ==
    Bind(parse_connect_address(text), LAMBDA address :
        IF IsSome(address)
        THEN handler_event(self, [type |-> "Connected", address |-> Unwrap(address)], o)
        ELSE Done(self))

handle_curl_log(self, data, o) == find_and_emit_connect_event(self, data, o)

\* handle_send_header accumulating the chunk before the raw event
handle_send_header_accumulating_first(self, data, o1, o2) ==
    Try(handler_event([self EXCEPT !.send_buf =
                          IF self.state = "HttpRequest" THEN @ \o data ELSE @],
                      [type |-> "HeaderSent", data |-> data], o1),
        LAMBDA s2 :
          IF s2.state = "HttpRequest" /\ IsSome(scan_header_boundary(s2.send_buf))
          THEN Bind(parse_request_header(s2.send_buf), LAMBDA parsed :
                 IF parsed.err # None THEN [self |-> s2, result |-> parsed.err]
                 ELSE Try(handler_event(s2,
                            [type |-> "HttpRequest", data |-> data,
                             header |-> parsed.header], o2),
                          LAMBDA s3 : Done([s3 EXCEPT !.state = "HttpResponse"])))
          ELSE Done(s2))

handle_send_header(self, data, o1, o2) ==
    Try(handler_event(self, [type |-> "HeaderSent", data |-> data], o1), LAMBDA s1 :
      IF s1.state = "HttpRequest"
      THEN Bind([s1 EXCEPT !.send_buf = @ \o data], LAMBDA s2 :
             IF IsSome(scan_header_boundary(s2.send_buf))
             THEN Bind(parse_request_header(s2.send_buf), LAMBDA parsed :
                    IF parsed.err # None THEN [self |-> s2, result |-> parsed.err]
                    ELSE Try(handler_event(s2,
                               [type |-> "HttpRequest", data |-> data,
                                header |-> parsed.header], o2),
                             LAMBDA s3 : Done([s3 EXCEPT !.state = "HttpResponse"])))
             ELSE Done(s2))
      ELSE Done(s1))

handle_receive_header(self, data, o1, o2) ==
    Try(handler_event(self, [type |-> "HeaderReceived", data |-> data], o1), LAMBDA s1 :
      IF s1.state = "HttpResponse"
      THEN Bind([s1 EXCEPT !.receive_buf = @ \o data], LAMBDA s2 :
             IF IsSome(scan_header_boundary(s2.receive_buf))
             THEN Bind(parse_response_header(s2.receive_buf), LAMBDA parsed :
                    IF parsed.err # None THEN [self |-> s2, result |-> parsed.err]
                    ELSE Try(handler_event(s2,
                               [type |-> "HttpResponse", data |-> data,
                                header |-> parsed.header], o2),
                             LAMBDA s3 :
                               Done([s3 EXCEPT !.state = "HttpResponseTrailer"])))
             ELSE Done(s2))
      ELSE IF s1.state = "HttpResponseTrailer"
      THEN Bind([s1 EXCEPT !.receive_buf = @ \o data], LAMBDA s2 :
             IF IsSome(scan_header_boundary(s2.receive_buf))
             THEN Bind(parse_response_trailer(s2.receive_buf), LAMBDA parsed :
                    IF parsed.err # None THEN [self |-> s2, result |-> parsed.err]
                    ELSE Try(handler_event(s2,
                               [type |-> "HttpResponseTrailer", data |-> data,
                                header |-> parsed.header], o2),
                             LAMBDA s3 : Done([s3 EXCEPT !.state = "Finished"])))
             ELSE Done(s2))
      ELSE Done(s1))

\* handle_send_body keeping the bytes with the request header's
handle_send_body_accumulating(self, data, o) ==
    handler_event([self EXCEPT !.send_buf = @ \o data],
                  [type |-> "BodySent", data |-> data], o)

handle_send_body(self, data, o) ==
    handler_event(self, [type |-> "BodySent", data |-> data], o)

\* handle_receive_body taking the first body bytes for the end of the header
handle_receive_body_advancing(self, data, o) ==
    Try(handler_event(self, [type |-> "BodyReceived", data |-> data], o), LAMBDA s1 :
      Done([s1 EXCEPT !.state = IF @ = "HttpResponse" THEN "HttpResponseTrailer" ELSE @]))

handle_receive_body(self, data, o) ==
    handler_event(self, [type |-> "BodyReceived", data |-> data], o)

\* handle_send_content forwarding the whole buffer
handle_send_content_whole_buffer(self, buf_len, u, o) ==
    Bind(handler_upload_content(self, u), LAMBDA r1 :
      IF r1.result # Ok THEN [self |-> r1.self, result |-> r1.result, size |-> 0]
      ELSE Bind(handler_event(r1.self,
                    [type |-> "ContentSent",
                     data |-> [i \in 1..buf_len |-> ContentByte]], o),
                LAMBDA r2 :
                  IF r2.result # Ok
                  THEN [self |-> r2.self, result |-> r2.result, size |-> 0]
                  ELSE [self |-> r2.self, result |-> Ok, size |-> buf_len]))

\* Result<usize, BoxedError>: size is meaningful when result is Ok
handle_send_content(self, buf_len, u, o) ==
    Bind(handler_upload_content(self, u), LAMBDA r1 :
      IF r1.result # Ok THEN [self |-> r1.self, result |-> r1.result, size |-> 0]
      ELSE Bind(handler_event(r1.self,
                    [type |-> "ContentSent",
                     data |-> [i \in 1..r1.size |-> ContentByte]], o),
                LAMBDA r2 :
                  IF r2.result # Ok
                  THEN [self |-> r2.self, result |-> r2.result, size |-> 0]
                  ELSE [self |-> r2.self, result |-> Ok, size |-> r1.size]))

handle_receive_content(self, data, o) ==
    handler_event(self, [type |-> "ContentReceived", data |-> data], o)

handle_progress(self, counters, o) ==
    handler_event(self,
        [type |-> "Progress",
         download_total |-> counters[1], download_current |-> counters[2],
         upload_total |-> counters[3], upload_current |-> counters[4]], o)

\* "self.error = Some(error); self.control.abort();"
CaptureAndAbort(self, error) ==
    [self EXCEPT !.error = Some(error), !.control = abort(@)]

\* The error is kept and the session goes on
AfterHandle_without_abort(r) ==
    IF r.result # Ok THEN [r.self EXCEPT !.error = r.result] ELSE r.self

\* "if let Err(error) = result { ... }" of the callbacks that abort on an error
AfterHandle(r) ==
    IF r.result # Ok THEN CaptureAndAbort(r.self, Unwrap(r.result)) ELSE r.self

InfoTypes ==
    {"Text", "HeaderIn", "HeaderOut", "DataIn", "DataOut", "SslDataIn", "SslDataOut"}

debug_function(self, info_type, data, o1, o2) ==
    Bind(CASE info_type = "Text" -> handle_curl_log(self, data, o1)
           [] info_type = "HeaderOut" -> handle_send_header(self, data, o1, o2)
           [] info_type = "DataIn" -> handle_receive_body(self, data, o1)
           [] info_type = "DataOut" -> handle_send_body(self, data, o1)
           [] OTHER -> Done(self),
         LAMBDA r : [self |-> AfterHandle(r), result |-> r.result, ret |-> "unit"])

\* header_function, returning false only for an error of this very call
header_function_ignoring_flag(self, data, o1, o2) ==
    Bind(handle_receive_header(self, data, o1, o2), LAMBDA r :
      Bind(AfterHandle(r), LAMBDA s :
        [self |-> s, result |-> r.result, ret |-> (r.result = Ok)]))

header_function(self, data, o1, o2) ==
    Bind(handle_receive_header(self, data, o1, o2), LAMBDA r :
      Bind(AfterHandle(r), LAMBDA s :
        [self |-> s, result |-> r.result, ret |-> ~s.control.aborted]))

\* "download_total as u64", for a whole number
as_u64(x) == IF x < 0 THEN 0 ELSE x

progress_function(self, counters, o) ==
    Bind(handle_progress(self, [i \in 1..4 |-> as_u64(counters[i])], o), LAMBDA r :
      Bind(AfterHandle(r), LAMBDA s :
        [self |-> s, result |-> r.result, ret |-> ~s.control.aborted]))

\* Result<usize, ReadError>
ReadOk(size) == [tag |-> "Ok", size |-> size]
ReadAbort == [tag |-> "Abort", size |-> 0]

\* read_function, reporting an abort without error as Ok(0)
read_function_silent_zero(self, buf_len, u, o) ==
    Bind(handle_send_content(self, buf_len, u, o), LAMBDA r :
      IF r.result = Ok
      THEN [self |-> r.self, result |-> r.result,
            ret |-> IF r.self.control.aborted THEN ReadOk(0) ELSE ReadOk(r.size)]
      ELSE [self |-> [r.self EXCEPT !.error = r.result], result |-> r.result,
            ret |-> ReadAbort])

read_function(self, buf_len, u, o) ==
    Bind(handle_send_content(self, buf_len, u, o), LAMBDA r :
      IF r.result = Ok
      THEN [self |-> r.self, result |-> r.result,
            ret |-> IF r.self.control.aborted THEN ReadAbort ELSE ReadOk(r.size)]
      ELSE [self |-> [r.self EXCEPT !.error = r.result], result |-> r.result,
            ret |-> ReadAbort])

\* write_function, testing the abort flag as it was before the handler ran
write_function_stale_flag(self, data, o) ==
    Bind(handle_receive_content(self, data, o), LAMBDA r :
      Bind(AfterHandle(r), LAMBDA s :
        [self |-> s, result |-> r.result,
         ret |-> IF self.control.aborted THEN 0 ELSE Len(data)]))

\* Result<usize, WriteError>: always Ok(n); ret is n
write_function(self, data, o) ==
    Bind(handle_receive_content(self, data, o), LAMBDA r :
      Bind(AfterHandle(r), LAMBDA s :
        [self |-> s, result |-> r.result,
         ret |-> IF s.control.aborted THEN 0 ELSE Len(data)]))

(***************************************************************************)
(* src/src/client/curl.rs: CurlSession, and Client::submit                 *)
(***************************************************************************)
Schemes == {"http", "https", "ftp", "gopher", "file"}

\* CurlSession::set_up: every set-option call may be refused by the transport
set_up(curl_handle, mode, transport_accepts) ==
    IF transport_accepts
    THEN [handle |-> [curl_handle EXCEPT !.options =
                        {"interface", "verbose", "url", "ssl_verify", "connect_timeout"}
                        \cup (IF mode = "Http" THEN {"http"} ELSE {})],
          result |-> Ok]
    ELSE [handle |-> curl_handle, result |-> Err([kind |-> "Curl", code |-> "set_up"])]

\* The tail of perform_with_callbacks: "result?; if let Some(error) = error"
perform_result(result, error) ==
    IF result # Ok THEN Err([kind |-> "Curl", code |-> Unwrap(result)])
    ELSE IF IsSome(error) THEN Err([kind |-> "Custom", error |-> Unwrap(error)])
    ELSE Ok

\* What the transport's perform call may return: an error once a callback has
\* told it to stop, otherwise success or an error of its own.
PerformOutcomes(told_to_stop) ==
    IF told_to_stop THEN {Err("aborted_by_callback")}
    ELSE {Ok, Err("transport_failure")}

VARIABLES
    pc,                 \* where the caller's submit() call is
    mode,               \* CurlSession.mode
    handler,            \* CurlSession.handler : Option<H>
    curl_handle,        \* CurlSession.curl_handle : Option<Easy>
    connection_pool,    \* ConnectionPool.curl_handles
    callback_handler,   \* the CallbackHandler shared by the five hooks, Option
    stopped,            \* the transport has been told to stop by a callback
    frame,              \* the latest callback: its kind, input, result, return value
    result,             \* perform_with_callbacks: the transport's result, Option
    error,              \* perform_with_callbacks: the error taken from the CallbackHandler
    returned            \* what submit() returned: Option<[handler, result]>

(***************************************************************************)
(* The other components of the client are modelled further down, each with *)
(* a specification of its own; a specification leaves the variables of the *)
(* components it does not exercise as they are after construction.         *)
(***************************************************************************)
VARIABLES
    sessions,           \* the transport handles held by concurrent sessions (a bag)
    pool_call,          \* the latest call on the ConnectionPool, Option
    cookie_jar,         \* CookieJar: [store : Option<CookieStore contents>]
    jar_lock,           \* the owner of the CookieStore's mutex, Option
    jar_calls,          \* per session: its call on the shared CookieJar
    format_call,        \* a call of format_client_header: input and output
    codec_call,         \* a byte sequence through parse_utf8_escaped and back
    fields,             \* HeaderFields.inner
    fields_call,        \* the latest call on the HeaderFields, Option
    scan_data,          \* a buffer of header bytes that only grows
    scan_call,          \* the latest scan_header_boundary of the buffer, Option
    setup_call          \* the set-up of an HTTP session and the response it gets, Option

pool_vars == <<connection_pool, sessions, pool_call>>
jar_vars == <<cookie_jar, jar_lock, jar_calls>>
format_vars == <<format_call>>
codec_vars == <<codec_call>>
fields_vars == <<fields, fields_call>>
scan_vars == <<scan_data, scan_call>>
setup_vars == <<setup_call>>
session_vars == <<pc, mode, handler, curl_handle, callback_handler,
                  stopped, frame, result, error, returned>>

vars == <<session_vars, pool_vars, jar_vars, format_vars, codec_vars, fields_vars,
          scan_vars, setup_vars>>

\* No session has been submitted
SessionIdle ==
    /\ pc = "idle"
    /\ mode = "NoSession"
    /\ handler = None
    /\ curl_handle = None
    /\ callback_handler = None
    /\ stopped = FALSE
    /\ frame = None
    /\ result = None
    /\ error = None
    /\ returned = None

\* ConnectionPool::new(), and no concurrent session holding a handle
PoolIdle ==
    /\ connection_pool = <<>>
    /\ sessions = EmptyBag
    /\ pool_call = None

\* CookieJar::new_disabled(), and no call on it
JarIdle ==
    /\ cookie_jar = [store |-> None]
    /\ jar_lock = None
    /\ jar_calls = <<>>

FormatIdle == format_call = None
CodecIdle == codec_call = None

\* HeaderFields::new()
FieldsIdle ==
    /\ fields = <<>>
    /\ fields_call = None

\* No buffer is being scanned
ScanIdle ==
    /\ scan_data = <<>>
    /\ scan_call = None

\* No session is being set up
SetUpIdle == setup_call = None

Init ==
    /\ SessionIdle
    /\ ScanIdle /\ SetUpIdle
    /\ PoolIdle
    /\ JarIdle
    /\ FormatIdle
    /\ CodecIdle
    /\ FieldsIdle

\* submit building the session, and with it taking a handle, before it looks
\* at the scheme
Submit_acquiring_first(scheme, set_up_accepted, hooks_accepted) ==
    /\ pc \in {"idle", "done"}
    /\ stopped' = FALSE
    /\ frame' = None
    /\ result' = None
    /\ error' = None
    /\ IF scheme \notin {"http", "https", "ftp"}
       THEN /\ pc' = "done"
            /\ mode' = "NoSession"
            /\ handler' = None
            /\ curl_handle' = Some(get_curl_handle(connection_pool).handle)
            /\ callback_handler' = None
            /\ returned' = Some([handler |-> NewHandler,
                                 result |-> Err([kind |-> "UnsupportedFeature",
                                                 feature |-> scheme])])
            /\ connection_pool' = get_curl_handle(connection_pool).handles
       ELSE LET got == get_curl_handle(connection_pool)
                m == IF scheme = "ftp" THEN "Ftp" ELSE "Http"
                configured == set_up(got.handle, m, set_up_accepted)
            IN /\ mode' = m
               /\ connection_pool' = got.handles
               /\ curl_handle' = Some(configured.handle)
               /\ IF configured.result # Ok
                  THEN \* run returns the error; wait takes the handler back
                       /\ pc' = "done"
                       /\ handler' = None
                       /\ callback_handler' = None
                       /\ returned' = Some([handler |-> NewHandler,
                                            result |-> configured.result])
                  ELSE IF ~hooks_accepted
                  THEN \* "?" leaves perform_with_callbacks with the handler inside
                       \* the CallbackHandler, which is dropped; wait unwraps None
                       /\ pc' = "panic"
                       /\ handler' = None
                       /\ callback_handler' = None
                       /\ returned' = None
                  ELSE /\ pc' = "perform"
                       /\ handler' = None
                       /\ callback_handler' = Some(CallbackHandler_new(NewHandler, m))
                       /\ returned' = None
    /\ UNCHANGED <<sessions, pool_call, jar_vars, format_vars, codec_vars, fields_vars,
                   scan_vars, setup_vars>>

\* Client::submit up to the point where the transport's perform call is
\* entered: CurlSession::new, wait, run, set_up, and the head of
\* perform_with_callbacks (the handler moves into the CallbackHandler and the
\* five hooks are registered).
Submit(scheme, set_up_accepted, hooks_accepted) ==
    /\ pc \in {"idle", "done"}
    /\ stopped' = FALSE
    /\ frame' = None
    /\ result' = None
    /\ error' = None
    /\ IF scheme \notin {"http", "https", "ftp"}
       THEN /\ pc' = "done"
            /\ mode' = "NoSession"
            /\ handler' = None
            /\ curl_handle' = None
            /\ callback_handler' = None
            /\ returned' = Some([handler |-> NewHandler,
                                 result |-> Err([kind |-> "UnsupportedFeature",
                                                 feature |-> scheme])])
            /\ UNCHANGED connection_pool
       ELSE LET got == get_curl_handle(connection_pool)
                m == IF scheme = "ftp" THEN "Ftp" ELSE "Http"
                configured == set_up(got.handle, m, set_up_accepted)
            IN /\ mode' = m
               /\ connection_pool' = got.handles
               /\ curl_handle' = Some(configured.handle)
               /\ IF configured.result # Ok
                  THEN \* run returns the error; wait takes the handler back
                       /\ pc' = "done"
                       /\ handler' = None
                       /\ callback_handler' = None
                       /\ returned' = Some([handler |-> NewHandler,
                                            result |-> configured.result])
                  ELSE IF ~hooks_accepted
                  THEN \* "?" leaves perform_with_callbacks with the handler inside
                       \* the CallbackHandler, which is dropped; wait unwraps None
                       /\ pc' = "panic"
                       /\ handler' = None
                       /\ callback_handler' = None
                       /\ returned' = None
                  ELSE /\ pc' = "perform"
                       /\ handler' = None
                       /\ callback_handler' = Some(CallbackHandler_new(NewHandler, m))
                       /\ returned' = None
    /\ UNCHANGED <<sessions, pool_call, jar_vars, format_vars, codec_vars, fields_vars,
                   scan_vars, setup_vars>>

\* The CallbackHandler at the entry of a callback
Entered == [Unwrap(callback_handler) EXCEPT !.handler.delivered = <<>>]

\* input is what the transport passed to the callback; repeated tells, for a
\* progress callback, that the callback before it was one with the same input
Frame(cb, input, len, r) ==
    Some([cb |-> cb, aborted_before |-> Entered.control.aborted, len |-> len,
          input |-> input,
          repeated |-> /\ cb = "progress" /\ IsSome(frame)
                       /\ Unwrap(frame).cb = cb /\ Unwrap(frame).input = input,
          result |-> r.result, ret |-> r.ret])

Called(r) ==
    /\ callback_handler' = Some(r.self)
    /\ UNCHANGED <<pc, mode, handler, curl_handle, connection_pool, result,
                   error, returned>>
    /\ UNCHANGED <<sessions, pool_call, jar_vars, format_vars, codec_vars, fields_vars,
                   scan_vars, setup_vars>>

DebugData(info_type) ==
    CASE info_type = "Text" -> LogLines
      [] info_type = "HeaderOut" -> SendChunks
      [] OTHER -> Contents

DebugCallback(info_type, data, o1, o2) ==
    /\ pc = "perform" /\ ~stopped
    /\ (info_type = "HeaderOut" /\ Entered.state = "HttpRequest")
          => Len(Entered.send_buf) + Len(data) <= MaxBuf
    \* the second outcome is consulted only after an accepted first event
    /\ (info_type # "HeaderOut" \/ o1.fail) => o2 = Accept
    /\ \E r \in {debug_function(Entered, info_type, data, o1, o2)} :
       /\ Called(r)
       /\ frame' = Frame("debug", [info_type |-> info_type, data |-> data],
                         IF info_type = "Text" THEN 0 ELSE Len(data), r)
       /\ stopped' = stopped

HeaderCallback(data, o1, o2) ==
    /\ pc = "perform" /\ ~stopped
    /\ Entered.state \in {"HttpResponse", "HttpResponseTrailer"}
          => Len(Entered.receive_buf) + Len(data) <= MaxBuf
    /\ o1.fail => o2 = Accept
    /\ \E r \in {header_function(Entered, data, o1, o2)} :
       /\ Called(r)
       /\ frame' = Frame("header", data, Len(data), r)
       /\ stopped' = ~r.ret

ProgressInputs == {<<0, 0, 0, 0>>, <<2, 1, 0, 0>>}

\* The progress callback telling the handler only of counters that changed
ProgressCallback_skipping_repeats(counters, o) ==
    /\ pc = "perform" /\ ~stopped
    /\ \E r \in {IF IsSome(frame) /\ Unwrap(frame).cb = "progress"
                       /\ Unwrap(frame).input = counters
                  THEN [self |-> Entered, result |-> Ok,
                        ret |-> ~Entered.control.aborted]
                  ELSE progress_function(Entered, counters, o)} :
       /\ Called(r)
       /\ frame' = Frame("progress", counters, 0, r)
       /\ stopped' = ~r.ret

ProgressCallback(counters, o) ==
    /\ pc = "perform" /\ ~stopped
    /\ \E r \in {progress_function(Entered, counters, o)} :
       /\ Called(r)
       /\ frame' = Frame("progress", counters, 0, r)
       /\ stopped' = ~r.ret

ReadCallback(buf_len, u, o) ==
    /\ pc = "perform" /\ ~stopped
    /\ u.size <= buf_len
    /\ u.fail => (o = Accept /\ u.size = 0)
    /\ \E r \in {read_function(Entered, buf_len, u, o)} :
       /\ Called(r)
       /\ frame' = Frame("read", [buf_len |-> buf_len, count |-> u.size], buf_len, r)
       /\ stopped' = (r.ret.tag = "Abort")

WriteCallback(data, o) ==
    /\ pc = "perform" /\ ~stopped
    /\ \E r \in {write_function(Entered, data, o)} :
       /\ Called(r)
       /\ frame' = Frame("write", data, Len(data), r)
       /\ stopped' = (r.ret # Len(data))

\* The transport's perform call returns: the rest of perform_with_callbacks,
\* run and wait.
PerformReturn(transport_result) ==
    /\ pc = "perform"
    /\ transport_result \in PerformOutcomes(stopped)
    /\ LET cbh == Unwrap(callback_handler)
           run == perform_result(transport_result, cbh.error)
       IN /\ result' = Some(transport_result)
          /\ error' = cbh.error
          /\ callback_handler' = None
          /\ IF run = Ok
             THEN /\ connection_pool' =
                        put_curl_handle(connection_pool, Unwrap(curl_handle))
                  /\ curl_handle' = None
             ELSE UNCHANGED <<connection_pool, curl_handle>>
          /\ handler' = None
          /\ returned' = Some([handler |-> cbh.handler, result |-> run])
    /\ pc' = "done"
    /\ UNCHANGED <<mode, stopped, frame>>
    /\ UNCHANGED <<sessions, pool_call, jar_vars, format_vars, codec_vars, fields_vars,
                   scan_vars, setup_vars>>

Next ==
    \/ \E scheme \in Schemes, a \in BOOLEAN, b \in BOOLEAN : Submit(scheme, a, b)
    \/ \E info_type \in InfoTypes : \E data \in DebugData(info_type) :
          \E o1 \in Outcomes, o2 \in Outcomes : DebugCallback(info_type, data, o1, o2)
    \/ \E data \in RecvChunks, o1 \in Outcomes, o2 \in Outcomes :
          HeaderCallback(data, o1, o2)
    \/ \E counters \in ProgressInputs, o \in Outcomes : ProgressCallback(counters, o)
    \/ \E buf_len \in 0..MaxLen, u \in UploadOutcomes, o \in Outcomes :
          ReadCallback(buf_len, u, o)
    \/ \E data \in Contents, o \in Outcomes : WriteCallback(data, o)
    \/ \E t \in {Ok, Err("aborted_by_callback"), Err("transport_failure")} :
          PerformReturn(t)

Spec == Init /\ [][Next]_vars

(***************************************************************************)
(* Properties                                                              *)
(***************************************************************************)
\* The CallbackHandler while the transport's perform call is running
CH == Unwrap(callback_handler)
\* The latest callback's frame
LastCall == Unwrap(frame)
InPerform == pc = "perform"
\* A step taken by a callback of the running session
CallbackStep == pc = "perform" /\ pc' = "perform"
\* The handler object, wherever the session has put it
TheHandler ==
    IF IsSome(callback_handler) THEN CH.handler
    ELSE IF IsSome(returned) THEN Unwrap(returned).handler
    ELSE NewHandler

\* C1: when the error taken from the callbacks at the end of the session is
\* an error the handler returned, submit() returns exactly that error, also
\* when the transport's perform call returned an error.
C1_HandlerErrorTakesPrecedence ==
    (pc = "done" /\ IsSome(error) /\ Unwrap(error).source = "handler")
        => Unwrap(returned).result = Err([kind |-> "Custom", error |-> Unwrap(error)])

\* C2: once the session's error slot holds an error, no later callback of
\* the session replaces it: the retained error is the first one captured.
C2_FirstErrorRetained ==
    [][(CallbackStep /\ IsSome(CH.error)) => CH'.error = CH.error]_vars

\* C3: every submit() ends by returning the handler to the caller; no path
\* ends in the panic of unwrapping a missing handler.
C3_HandlerAlwaysReturned ==
    /\ pc # "panic"
    /\ pc = "done" => IsSome(returned)

StructuredRank(type) ==
    CASE type = "HttpRequest" -> 1
      [] type = "HttpResponse" -> 2
      [] type = "HttpResponseTrailer" -> 3

\* C4: the structured events a handler has received in a session are in the
\* order request, response, trailer, each at most once.
C4_StructuredEventsOrderedOnce ==
    \A i \in 1..Len(TheHandler.structured) : \A j \in 1..Len(TheHandler.structured) :
        i < j => StructuredRank(TheHandler.structured[i].type)
                    < StructuredRank(TheHandler.structured[j].type)

\* The inbound header bytes received after the response header block
TrailerBytes(receive_buf) ==
    SubSeq(receive_buf, Unwrap(scan_header_boundary(receive_buf)) + 1, Len(receive_buf))

\* C5: a header callback in AwaitingResponseTrailer, in a session with no
\* error so far and whose handler returns no error, accumulates the chunk;
\* while the bytes after the response header block hold no blank line the
\* state stays and no error is captured, and once they do the trailer parsed
\* from those bytes is delivered, the state is Finished and no error is
\* captured.
C5_TrailerParsedAtItsBlankLine ==
    [][(/\ CallbackStep
        /\ CH.state = "HttpResponseTrailer"
        /\ CH.error = None
        /\ Unwrap(frame').cb = "header"
        /\ (Unwrap(frame').result = Ok \/ Unwrap(Unwrap(frame').result).source # "handler"))
       => IF IsSome(scan_header_boundary(TrailerBytes(CH'.receive_buf)))
          THEN /\ CH'.state = "Finished"
               /\ CH'.error = None
               /\ Len(CH'.handler.delivered) = 2
               /\ CH'.handler.delivered[2].type = "HttpResponseTrailer"
               /\ CH'.handler.delivered[2].header =
                     parse_response_trailer(TrailerBytes(CH'.receive_buf)).header
          ELSE /\ CH'.state = "HttpResponseTrailer"
               /\ CH'.error = None]_vars

\* C6: while the callbacks run, a retained error implies the abort flag.
C6_ErrorImpliesAborted ==
    InPerform => (IsSome(CH.error) => CH.control.aborted)

\* The return value that tells the transport to stop, per callback type
IsStopSignal(call) ==
    CASE call.cb \in {"header", "progress"} -> call.ret = FALSE
      [] call.cb = "write" -> call.ret = 0
      [] call.cb = "read" -> call.ret.tag = "Abort"
      [] OTHER -> TRUE

\* C7: within a session the abort flag, once set, stays set, and every
\* header, progress, download-content and upload-content callback entered
\* with the flag set returns the stop signal of its type.
C7_AbortSticksAndStops ==
    [][CallbackStep =>
        /\ CH.control.aborted => CH'.control.aborted
        /\ CH.control.aborted => IsStopSignal(Unwrap(frame'))]_vars

\* A download-content callback entered with the flag set returned zero for
\* a non-empty delivery
C7_Witness ==
    /\ InPerform /\ IsSome(frame)
    /\ LastCall.aborted_before /\ LastCall.cb = "write"
    /\ LastCall.len > 0 /\ LastCall.ret = 0

\* C8: the download-content callback returns the delivered length when the
\* session is not aborted at the end of the callback, and zero when it is.
C8_WriteConsumed ==
    (InPerform /\ IsSome(frame) /\ LastCall.cb = "write")
        => LastCall.ret = IF CH.control.aborted THEN 0 ELSE LastCall.len

\* The handler aborted, without error, during the download-content callback
\* of a non-empty delivery, and zero was returned
C8_Witness ==
    /\ InPerform /\ IsSome(frame)
    /\ LastCall.cb = "write" /\ ~LastCall.aborted_before /\ LastCall.result = Ok
    /\ CH.control.aborted /\ LastCall.len > 0 /\ LastCall.ret = 0

\* C9: the upload-content callback returns the read-abort signal, never a
\* byte count, when the session is aborted as the handler returns or the
\* handler returned an error.
C9_ReadAbortSignal ==
    (InPerform /\ IsSome(frame) /\ LastCall.cb = "read"
       /\ (CH.control.aborted \/ LastCall.result # Ok))
        => LastCall.ret = ReadAbort

\* The handler aborted, without error, during the upload-content callback
C9_Witness ==
    /\ InPerform /\ IsSome(frame)
    /\ LastCall.cb = "read" /\ ~LastCall.aborted_before /\ LastCall.result = Ok
    /\ CH.control.aborted /\ LastCall.ret.tag = "Abort"

\* C10: when a session that acquired a transport handle has ended, the
\* handle has left the session and is in the connection pool.
C10_HandleReleasedAtEnd ==
    (pc = "done" /\ mode # "NoSession")
        => (curl_handle = None /\ Len(connection_pool) >= 1)

(***************************************************************************)
(* src/src/client/pool.rs: the ConnectionPool shared by the sessions of a   *)
(* Client and of its clones.  Every method body runs under the pool's       *)
(* mutex from its first statement to its return, so a call is one step.     *)
(* The sessions are anonymous: `sessions` is the bag of their curl_handle   *)
(* fields, None for a session that is inside CurlSession::new and has not   *)
(* got its handle yet.                                                      *)
(***************************************************************************)
\* Sessions alive at the same time
MaxSessions == 21

\* CurlSession::set_up, accepted by the transport, of an http session
Configured(h) == set_up(h, "Http", TRUE).handle

One(x) == SetToBag({x})

PoolCall(op, curl, before) ==
    Some([op |-> op, handle |-> curl, before |-> before])

PoolInit ==
    /\ SessionIdle
    /\ ScanIdle /\ SetUpIdle
    /\ PoolIdle
    /\ JarIdle
    /\ FormatIdle
    /\ CodecIdle
    /\ FieldsIdle

PoolFrame == UNCHANGED <<session_vars, jar_vars, format_vars, codec_vars, fields_vars, scan_vars, setup_vars>>

\* Client::submit enters CurlSession::new
NewSession ==
    /\ BagCardinality(sessions) < MaxSessions
    /\ sessions' = sessions (+) One(None)
    /\ UNCHANGED <<connection_pool, pool_call>>
    /\ PoolFrame

\* get_curl_handle, waiting for a release while the pool is empty
GetCurlHandle_waiting ==
    /\ BagIn(None, sessions)
    /\ connection_pool # <<>>
    /\ \E got \in {get_curl_handle(connection_pool)} :
        /\ connection_pool' = got.handles
        /\ sessions' = (sessions (-) One(None)) (+) One(Some(got.handle))
        /\ pool_call' = PoolCall("get", got.handle, connection_pool)
    /\ PoolFrame

\* CurlSession::new: "let curl_handle = connection_pool.get_curl_handle();"
GetCurlHandle ==
    /\ BagIn(None, sessions)
    /\ \E got \in {get_curl_handle(connection_pool)} :
        /\ connection_pool' = got.handles
        /\ sessions' = (sessions (-) One(None)) (+) One(Some(got.handle))
        /\ pool_call' = PoolCall("get", got.handle, connection_pool)
    /\ PoolFrame

\* CurlSession::run: "self.set_up()?" on the handle just acquired
SetUp(held) ==
    /\ BagIn(held, sessions)
    /\ IsSome(held) /\ Unwrap(held) = EasyNew
    /\ sessions' = (sessions (-) One(held)) (+) One(Some(Configured(Unwrap(held))))
    /\ UNCHANGED <<connection_pool, pool_call>>
    /\ PoolFrame

\* CurlSession::run, after a successful perform:
\* "self.connection_pool.put_curl_handle(self.curl_handle.take().unwrap())"
PutCurlHandle(held) ==
    /\ BagIn(held, sessions)
    /\ IsSome(held) /\ Unwrap(held) # EasyNew
    /\ connection_pool' = put_curl_handle(connection_pool, Unwrap(held))
    /\ sessions' = sessions (-) One(held)
    /\ pool_call' = PoolCall("put", Unwrap(held), connection_pool)
    /\ PoolFrame

\* A session that ends with an error is dropped with its handle
DropSession(held) ==
    /\ BagIn(held, sessions)
    /\ IsSome(held)
    /\ sessions' = sessions (-) One(held)
    /\ UNCHANGED <<connection_pool, pool_call>>
    /\ PoolFrame

PoolNext ==
    \/ NewSession
    \/ GetCurlHandle
    \/ \E held \in BagToSet(sessions) : SetUp(held)
    \/ \E held \in BagToSet(sessions) : PutCurlHandle(held)
    \/ \E held \in BagToSet(sessions) : DropSession(held)

PoolSpec == PoolInit /\ [][PoolNext]_vars

LastPoolCall == Unwrap(pool_call)

\* C11: the pool never holds more than MAX_HANDLES handles, and a release
\* made while it holds MAX_HANDLES leaves its contents as they were.
C11_PoolBounded ==
    /\ Len(connection_pool) <= MAX_HANDLES
    /\ (IsSome(pool_call) /\ LastPoolCall.op = "put"
          /\ Len(LastPoolCall.before) = MAX_HANDLES)
        => connection_pool = LastPoolCall.before

\* A handle was released to a pool that held MAX_HANDLES
C11_Witness ==
    /\ IsSome(pool_call) /\ LastPoolCall.op = "put"
    /\ Len(LastPoolCall.before) = MAX_HANDLES
    /\ Len(connection_pool) = MAX_HANDLES

\* C12: a session inside get_curl_handle can always complete the call,
\* whatever the pool holds and however many sessions hold a handle, and a
\* call made on an empty pool returns a freshly constructed handle.
C12_AcquireNeverWaits ==
    /\ BagIn(None, sessions) => ENABLED GetCurlHandle
    /\ (IsSome(pool_call) /\ LastPoolCall.op = "get" /\ LastPoolCall.before = <<>>)
        => LastPoolCall.handle = EasyNew

\* An acquire on an empty pool returned while MAX_HANDLES other sessions
\* held a handle
C12_Witness ==
    /\ IsSome(pool_call) /\ LastPoolCall.op = "get" /\ LastPoolCall.before = <<>>
    /\ BagCardinality(sessions) - CopiesIn(None, sessions) > MAX_HANDLES

\* C13: every handle get_curl_handle returns has all its options at their
\* defaults, whether it was constructed or popped from the pool.
C13_AcquiredHandleIsDefault ==
    (IsSome(pool_call) /\ LastPoolCall.op = "get")
        => LastPoolCall.handle.options = {}

\* An acquire popped a handle that an earlier session had configured
C13_Witness ==
    /\ IsSome(pool_call) /\ LastPoolCall.op = "get"
    /\ LastPoolCall.before # <<>>
    /\ "url" \in LastPoolCall.before[Len(LastPoolCall.before)].options
    /\ LastPoolCall.handle.options = {}

(***************************************************************************)
(* src/src/client/cookie.rs: format_client_header.  Strings are sequences  *)
(* of bytes; the cookies used are ASCII, one byte per character.           *)
(***************************************************************************)
\* Cookies in one call
MaxCookies == 3
\* Largest byte budget tried
MaxBudget == 16

\* "; ", "=" and the double quote
Separator == <<59, 32>>
EqualsSign == <<61>>
Quote == <<34>>

\* str::contains(' ')
contains_space(value) == \E i \in 1..Len(value) : value[i] = 32

\* The body of the loop with the value written as it is
push_cookie_unquoted(buf, name, value, max_len) ==
    IF Len(buf) + Len(name) + Len(value) + 4 <= max_len
    THEN (IF buf # <<>> THEN buf \o Separator ELSE buf) \o name \o EqualsSign \o value
    ELSE buf

\* The body of the loop of format_client_header for one (name, value)
push_cookie(buf, name, value, max_len) ==
    IF Len(buf) + Len(name) + Len(value) + 4 <= max_len
    THEN (IF buf # <<>> THEN buf \o Separator ELSE buf)
            \o name \o EqualsSign
            \o (IF contains_space(value) THEN Quote \o value \o Quote ELSE value)
    ELSE buf

RECURSIVE format_cookies(_, _, _)
format_cookies(cookies, buf, max_len) ==
    IF cookies = <<>> THEN buf
    ELSE format_cookies(Tail(cookies),
                        push_cookie(buf, cookies[1].name, cookies[1].value, max_len),
                        max_len)

format_client_header(cookies, max_len) == format_cookies(cookies, <<>>, max_len)

\* "k", "k1"; "v", "v1", "v 3" (the names and values of the crate's test)
CookieNames == {<<107>>, <<107, 49>>}
CookieValues == {<<118>>, <<118, 49>>, <<118, 32, 51>>}
CookiePairs == [name : CookieNames, value : CookieValues]

RECURSIVE SeqsUpTo(_, _)
SeqsUpTo(S, n) ==
    IF n = 0 THEN {<<>>}
    ELSE LET shorter == SeqsUpTo(S, n - 1)
         IN shorter \cup {Append(q, x) : q \in shorter, x \in S}

FormatFrame == UNCHANGED <<session_vars, pool_vars, jar_vars, codec_vars, fields_vars, scan_vars, setup_vars>>

FormatInit ==
    /\ SessionIdle /\ ScanIdle /\ SetUpIdle /\ PoolIdle /\ JarIdle /\ CodecIdle /\ FieldsIdle
    /\ \E cookies \in SeqsUpTo(CookiePairs, MaxCookies), max_len \in 0..MaxBudget :
          format_call = Some([cookies |-> cookies, max_len |-> max_len, out |-> None])

FormatClientHeader ==
    /\ IsSome(format_call)
    /\ Unwrap(format_call).out = None
    /\ format_call' = Some([Unwrap(format_call) EXCEPT
            !.out = Some(format_client_header(Unwrap(format_call).cookies,
                                              Unwrap(format_call).max_len))])
    /\ FormatFrame

FormatNext == FormatClientHeader

FormatSpec == FormatInit /\ [][FormatNext]_vars

FormatCall == Unwrap(format_call)
Formatted == IsSome(format_call) /\ IsSome(FormatCall.out)

\* C14: the string format_client_header returns is at most max_len bytes
\* long.
C14_RenderedWithinBudget ==
    Formatted => Len(Unwrap(FormatCall.out)) <= FormatCall.max_len

\* Every cookie of the sequence, rendered and joined, whatever the length
RECURSIVE RenderAll(_)
RenderAll(cookies) ==
    IF cookies = <<>> THEN <<>>
    ELSE LET c == cookies[Len(cookies)]
             head == RenderAll(SubSeq(cookies, 1, Len(cookies) - 1))
         IN (IF head # <<>> THEN head \o Separator ELSE head)
               \o c.name \o EqualsSign
               \o (IF contains_space(c.value) THEN Quote \o c.value \o Quote
                   ELSE c.value)

\* C15: the rendered entries are a prefix of the iteration order: nothing
\* is rendered after an entry that was skipped.
C15_RenderedIsPrefix ==
    Formatted =>
        \E n \in 0..Len(FormatCall.cookies) :
            Unwrap(FormatCall.out) = RenderAll(SubSeq(FormatCall.cookies, 1, n))

(***************************************************************************)
(* src/src/string/escape.rs: the byte-safe text codec.  A String is the    *)
(* sequence of its chars, a char is its code point; bytes are 0..255.      *)
(* std::str::from_utf8 and char::encode_utf8 are modelled by the UTF-8     *)
(* rules they implement.                                                   *)
(***************************************************************************)
\* Longest byte sequence encoded
MaxBytes == 4

\* char::REPLACEMENT_CHARACTER (U+FFFD) and U+E007F
ESCAPE_CHAR == 65533
LITERAL_SEQ_CHAR == 917631

\* A continuation byte, 0x80..=0xBF
IsContinuation(b) == b >= 128 /\ b <= 191

\* core::str: the length of the sequence a first byte announces, 0 if none
utf8_char_width(b) ==
    IF b < 128 THEN 1
    ELSE IF b >= 194 /\ b <= 223 THEN 2
    ELSE IF b >= 224 /\ b <= 239 THEN 3
    ELSE IF b >= 240 /\ b <= 244 THEN 4
    ELSE 0

\* The second byte a three- or four-byte sequence admits after its first
SecondByteOk(first, second) ==
    CASE first = 224 -> second >= 160 /\ second <= 191
      [] first = 237 -> second >= 128 /\ second <= 159
      [] first = 240 -> second >= 144 /\ second <= 191
      [] first = 244 -> second >= 128 /\ second <= 143
      [] OTHER -> IsContinuation(second)

\* The char at input[i..]: [len, ch] if well formed, else Utf8Error's
\* error_len: Some(n) for an invalid sequence of n bytes, None when the
\* input ends inside a sequence that is well formed so far
Utf8CharAt(input, i) ==
    LET first == input[i]
        w == utf8_char_width(first)
        n == Len(input) - i + 1
    IN CASE w = 0 -> [ok |-> FALSE, error_len |-> Some(1)]
         [] w = 1 -> [ok |-> TRUE, len |-> 1, ch |-> first]
         [] w = 2 ->
              IF n < 2 THEN [ok |-> FALSE, error_len |-> None]
              ELSE IF ~IsContinuation(input[i + 1])
              THEN [ok |-> FALSE, error_len |-> Some(1)]
              ELSE [ok |-> TRUE, len |-> 2,
                    ch |-> (first % 32) * 64 + (input[i + 1] % 64)]
         [] w = 3 ->
              IF n < 2 THEN [ok |-> FALSE, error_len |-> None]
              ELSE IF ~SecondByteOk(first, input[i + 1])
              THEN [ok |-> FALSE, error_len |-> Some(1)]
              ELSE IF n < 3 THEN [ok |-> FALSE, error_len |-> None]
              ELSE IF ~IsContinuation(input[i + 2])
              THEN [ok |-> FALSE, error_len |-> Some(2)]
              ELSE [ok |-> TRUE, len |-> 3,
                    ch |-> (first % 16) * 4096 + (input[i + 1] % 64) * 64
                             + (input[i + 2] % 64)]
         [] w = 4 ->
              IF n < 2 THEN [ok |-> FALSE, error_len |-> None]
              ELSE IF ~SecondByteOk(first, input[i + 1])
              THEN [ok |-> FALSE, error_len |-> Some(1)]
              ELSE IF n < 3 THEN [ok |-> FALSE, error_len |-> None]
              ELSE IF ~IsContinuation(input[i + 2])
              THEN [ok |-> FALSE, error_len |-> Some(2)]
              ELSE IF n < 4 THEN [ok |-> FALSE, error_len |-> None]
              ELSE IF ~IsContinuation(input[i + 3])
              THEN [ok |-> FALSE, error_len |-> Some(3)]
              ELSE [ok |-> TRUE, len |-> 4,
                    ch |-> (first % 8) * 262144 + (input[i + 1] % 64) * 4096
                             + (input[i + 2] % 64) * 64 + (input[i + 3] % 64)]

\* std::str::from_utf8: Ok(the chars), or Err with valid_up_to, error_len
\* and the chars of the valid prefix
RECURSIVE Utf8Scan(_, _, _)
Utf8Scan(input, i, chars) ==
    IF i > Len(input)
    THEN [ok |-> TRUE, valid |-> chars, valid_up_to |-> Len(input), error_len |-> None]
    ELSE LET c == Utf8CharAt(input, i)
         IN IF c.ok THEN Utf8Scan(input, i + c.len, Append(chars, c.ch))
            ELSE [ok |-> FALSE, valid |-> chars, valid_up_to |-> i - 1,
                  error_len |-> c.error_len]

from_utf8(input) == Utf8Scan(input, 1, <<>>)

\* char::encode_utf8
encode_utf8(ch) ==
    IF ch < 128 THEN <<ch>>
    ELSE IF ch < 2048 THEN <<192 + (ch \div 64), 128 + (ch % 64)>>
    ELSE IF ch < 65536
    THEN <<224 + (ch \div 4096), 128 + ((ch \div 64) % 64), 128 + (ch % 64)>>
    ELSE <<240 + (ch \div 262144), 128 + ((ch \div 4096) % 64),
           128 + ((ch \div 64) % 64), 128 + (ch % 64)>>

\* The second range starting at its first code point for byte 0x00
byte_to_escape_seq_overlapping(byte) ==
    IF byte <= 15 THEN 65024 + byte ELSE 917760 + byte

byte_to_escape_seq(byte) ==
    IF byte <= 15 THEN 65024 + byte ELSE 917760 + byte - 16

RECURSIVE escape_escape_char(_, _)
escape_escape_char(input, output) ==
    IF input = <<>> THEN output
    ELSE escape_escape_char(Tail(input),
            IF input[1] = ESCAPE_CHAR
            THEN output \o <<input[1], LITERAL_SEQ_CHAR>>
            ELSE Append(output, input[1]))

\* "for byte in &after_valid[0..invalid_sequence_length]"
RECURSIVE EscapeBytes(_, _)
EscapeBytes(bytes, buf) ==
    IF bytes = <<>> THEN buf
    ELSE EscapeBytes(Tail(bytes), buf \o <<ESCAPE_CHAR, byte_to_escape_seq(bytes[1])>>)

RECURSIVE parse_utf8_escaped_loop(_, _)
parse_utf8_escaped_loop(input, buf) ==
    LET r == from_utf8(input)
        escaped == escape_escape_char(r.valid, buf)
        after_valid == SubSeq(input, r.valid_up_to + 1, Len(input))
    IN IF r.ok THEN escaped
       ELSE IF IsSome(r.error_len)
       THEN parse_utf8_escaped_loop(
                SubSeq(after_valid, Unwrap(r.error_len) + 1, Len(after_valid)),
                EscapeBytes(SubSeq(after_valid, 1, Unwrap(r.error_len)), escaped))
       ELSE escaped

parse_utf8_escaped(input) == parse_utf8_escaped_loop(input, <<>>)

escape_seq_to_byte(ch) ==
    IF ch >= 65024 /\ ch <= 65039 THEN Some(ch - 65024)
    ELSE IF ch >= 917760 /\ ch <= 917999 THEN Some(ch - 917760 + 16)
    ELSE None

\* Vec::pop, which leaves an empty vector empty
pop(buf) == IF buf = <<>> THEN buf ELSE SubSeq(buf, 1, Len(buf) - 1)

decode_escape_seq(ch, buf) ==
    IF ch # LITERAL_SEQ_CHAR
    THEN IF IsSome(escape_seq_to_byte(ch))
         THEN Append(pop(pop(pop(buf))), Unwrap(escape_seq_to_byte(ch)))
         ELSE buf \o encode_utf8(ch)
    ELSE buf

RECURSIVE escaped_to_bytes_loop(_, _, _)
escaped_to_bytes_loop(input, buf, state) ==
    IF input = <<>> THEN buf
    ELSE IF state = "Literal"
    THEN escaped_to_bytes_loop(Tail(input), buf \o encode_utf8(input[1]),
                               IF input[1] = ESCAPE_CHAR THEN "Escape" ELSE "Literal")
    ELSE escaped_to_bytes_loop(Tail(input), decode_escape_seq(input[1], buf), "Literal")

utf8_escaped_to_bytes(input) == escaped_to_bytes_loop(input, <<>>, "Literal")

\* '_', a lone continuation byte 0x80, the bytes EF BF BD of U+FFFD, and C3,
\* the first byte of a two-byte sequence
CodecBytes == {95, 128, 189, 191, 195, 239}

CodecFrame == UNCHANGED <<session_vars, pool_vars, jar_vars, format_vars, fields_vars, scan_vars, setup_vars>>

CodecInit ==
    /\ SessionIdle /\ ScanIdle /\ SetUpIdle /\ PoolIdle /\ JarIdle /\ FormatIdle /\ FieldsIdle
    /\ \E input \in SeqsUpTo(CodecBytes, MaxBytes) :
          codec_call = Some([input |-> input, text |-> None, output |-> None])

CodecCall == Unwrap(codec_call)

ParseUtf8Escaped ==
    /\ IsSome(codec_call)
    /\ CodecCall.text = None
    /\ codec_call' = Some([CodecCall EXCEPT !.text = Some(parse_utf8_escaped(CodecCall.input))])
    /\ CodecFrame

Utf8EscapedToBytes ==
    /\ IsSome(codec_call)
    /\ IsSome(CodecCall.text) /\ CodecCall.output = None
    /\ codec_call' = Some([CodecCall EXCEPT
            !.output = Some(utf8_escaped_to_bytes(Unwrap(CodecCall.text)))])
    /\ CodecFrame

CodecNext ==
    \/ ParseUtf8Escaped
    \/ Utf8EscapedToBytes

CodecSpec == CodecInit /\ [][CodecNext]_vars

\* C19: utf8_escaped_to_bytes(parse_utf8_escaped(B)) = B for every byte
\* sequence B.
C19_CodecRoundTrip ==
    (IsSome(codec_call) /\ IsSome(CodecCall.output))
        => Unwrap(CodecCall.output) = CodecCall.input

(***************************************************************************)
(* src/src/http/common.rs: HeaderFields, FieldName, FieldValue.  A field   *)
(* is a record [name, value]; HeaderFields.inner is a sequence of fields.  *)
(***************************************************************************)
\* Fields in a HeaderFields
MaxFields == 3

\* u8::to_ascii_lowercase, str::to_ascii_lowercase
byte_to_ascii_lowercase(b) == IF b >= 65 /\ b <= 90 THEN b + 32 ELSE b
to_ascii_lowercase(text) == [i \in 1..Len(text) |-> byte_to_ascii_lowercase(text[i])]

FieldName_new(name) == [inner |-> name, normalized |-> to_ascii_lowercase(name)]
\* Names compared as they were written
FieldName_eq_exact(a, b) == a.inner = b.inner
\* impl PartialEq for FieldName
FieldName_eq(a, b) == a.normalized = b.normalized

\* impl From<&str> for FieldValue
FieldValue_text(text) == [tag |-> "Text", text |-> text]
FieldValue_opaque(data) == [tag |-> "Opaque", data |-> data]
\* impl From<&[u8]> for FieldValue
FieldValue_from_bytes(value) ==
    IF from_utf8(value).ok THEN FieldValue_text(value) ELSE FieldValue_opaque(value)

\* FieldValue::to_string_lossy, as chars
to_string_lossy(value) ==
    IF value.tag = "Text" THEN from_utf8(value.text).valid
    ELSE parse_utf8_escaped(value.data)

\* Iterator::position: the zero-based index of the first field named key
position(inner, key) ==
    IF \E i \in 1..Len(inner) : FieldName_eq(inner[i].name, key)
    THEN Some((CHOOSE i \in 1..Len(inner) :
                  /\ FieldName_eq(inner[i].name, key)
                  /\ \A j \in 1..(i - 1) : ~FieldName_eq(inner[j].name, key)) - 1)
    ELSE None

\* Vec::retain
RECURSIVE retain_not_named(_, _)
retain_not_named(inner, key) ==
    IF inner = <<>> THEN <<>>
    ELSE IF FieldName_eq(inner[1].name, key) THEN retain_not_named(Tail(inner), key)
    ELSE <<inner[1]>> \o retain_not_named(Tail(inner), key)

\* Vec::insert(index, element), index zero-based
Vec_insert(v, index, element) ==
    SubSeq(v, 1, index) \o <<element>> \o SubSeq(v, index + 1, Len(v))

HeaderFields_contains_key(inner, key) ==
    \E i \in 1..Len(inner) : FieldName_eq(inner[i].name, key)

HeaderFields_get(inner, key) ==
    IF IsSome(position(inner, key))
    THEN Some(inner[Unwrap(position(inner, key)) + 1].value)
    ELSE None

RECURSIVE HeaderFields_get_all(_, _)
HeaderFields_get_all(inner, key) ==
    IF inner = <<>> THEN <<>>
    ELSE IF FieldName_eq(inner[1].name, key)
    THEN <<inner[1].value>> \o HeaderFields_get_all(Tail(inner), key)
    ELSE HeaderFields_get_all(Tail(inner), key)

\* append that drops the fields already there under that name
HeaderFields_append_replacing(inner, key, value) ==
    Append(retain_not_named(inner, key), [name |-> key, value |-> value])

HeaderFields_append(inner, key, value) == Append(inner, [name |-> key, value |-> value])

HeaderFields_remove(inner, key) == retain_not_named(inner, key)

\* insert, overwriting the first field of that name and leaving the others
HeaderFields_insert_first_only(inner, key, value) ==
    IF IsSome(position(inner, key))
    THEN [inner EXCEPT ![Unwrap(position(inner, key)) + 1] = [name |-> key, value |-> value]]
    ELSE HeaderFields_append(inner, key, value)

HeaderFields_insert(inner, key, value) ==
    IF IsSome(position(inner, key))
    THEN Vec_insert(HeaderFields_remove(inner, key), Unwrap(position(inner, key)),
                    [name |-> key, value |-> value])
    ELSE HeaderFields_append(inner, key, value)

\* "k1", "K1", "k2" and "v1", "v1-1", "v2" (test_header_fields)
FieldNames == {FieldName_new(<<107, 49>>), FieldName_new(<<75, 49>>),
               FieldName_new(<<107, 50>>)}
FieldValues == {FieldValue_text(<<118, 49>>), FieldValue_text(<<118, 49, 45, 49>>),
                FieldValue_text(<<118, 50>>)}

FieldsFrame == UNCHANGED <<session_vars, pool_vars, jar_vars, format_vars, codec_vars, scan_vars, setup_vars>>

FieldsInit ==
    /\ SessionIdle /\ ScanIdle /\ SetUpIdle /\ PoolIdle /\ JarIdle /\ FormatIdle /\ CodecIdle
    /\ FieldsIdle

FieldsCall(op, key, value) ==
    Some([op |-> op, key |-> key, value |-> value, before |-> fields])

FieldsAppend(key, value) ==
    /\ Len(fields) < MaxFields
    /\ fields' = HeaderFields_append(fields, key, value)
    /\ fields_call' = FieldsCall("append", key, value)
    /\ FieldsFrame

FieldsInsert(key, value) ==
    /\ Len(fields) < MaxFields \/ HeaderFields_contains_key(fields, key)
    /\ fields' = HeaderFields_insert(fields, key, value)
    /\ fields_call' = FieldsCall("insert", key, value)
    /\ FieldsFrame

FieldsRemove(key) ==
    /\ fields' = HeaderFields_remove(fields, key)
    /\ fields_call' = FieldsCall("remove", key, FieldValue_text(<<>>))
    /\ FieldsFrame

\* HeaderFields::clear
FieldsClear ==
    /\ fields' = <<>>
    /\ fields_call' = FieldsCall("clear", FieldName_new(<<>>), FieldValue_text(<<>>))
    /\ FieldsFrame

\* A call that only reads: what it returned is kept with the call
FieldsQuery(op, key, out) ==
    Some([op |-> op, key |-> key, out |-> out, before |-> fields])

FieldsContainsKey(key) ==
    /\ fields_call' = FieldsQuery("contains_key", key, HeaderFields_contains_key(fields, key))
    /\ UNCHANGED fields
    /\ FieldsFrame

FieldsGet(key) ==
    /\ fields_call' = FieldsQuery("get", key, HeaderFields_get(fields, key))
    /\ UNCHANGED fields
    /\ FieldsFrame

FieldsGetAll(key) ==
    /\ fields_call' = FieldsQuery("get_all", key, HeaderFields_get_all(fields, key))
    /\ UNCHANGED fields
    /\ FieldsFrame

FieldsNext ==
    \/ \E key \in FieldNames : FieldsContainsKey(key)
    \/ \E key \in FieldNames : FieldsGet(key)
    \/ \E key \in FieldNames : FieldsGetAll(key)
    \/ \E key \in FieldNames, value \in FieldValues : FieldsAppend(key, value)
    \/ \E key \in FieldNames, value \in FieldValues : FieldsInsert(key, value)
    \/ \E key \in FieldNames : FieldsRemove(key)
    \/ FieldsClear

FieldsSpec == FieldsInit /\ [][FieldsNext]_vars

LastFieldsCall == Unwrap(fields_call)
\* The indices of the fields of that name
Named(inner, key) == {i \in 1..Len(inner) : FieldName_eq(inner[i].name, key)}
\* The fields of other names, in order
RECURSIVE OtherFields(_, _)
OtherFields(inner, key) ==
    IF inner = <<>> THEN <<>>
    ELSE (IF FieldName_eq(inner[1].name, key) THEN <<>> ELSE <<inner[1]>>)
            \o OtherFields(Tail(inner), key)

\* C20: after insert(name, value) exactly one field has that name, it
\* carries the new value, it is where the first field of that name was (at
\* the end if there was none), and the fields of other names are as before.
C20_InsertReplacesInPlace ==
    (IsSome(fields_call) /\ LastFieldsCall.op = "insert") =>
        LET key == LastFieldsCall.key
            before == LastFieldsCall.before
        IN /\ Cardinality(Named(fields, key)) = 1
           /\ \A i \in Named(fields, key) :
                /\ fields[i].value = LastFieldsCall.value
                /\ IF Named(before, key) # {}
                   THEN \A j \in Named(before, key) : i <= j
                   ELSE i = Len(fields)
           /\ Named(before, key) # {} => Named(fields, key) \subseteq Named(before, key)
           /\ OtherFields(fields, key) = OtherFields(before, key)

\* An insert replaced two fields of that name, spelled in different case,
\* that had a field of another name between them
C20_Witness ==
    /\ IsSome(fields_call) /\ LastFieldsCall.op = "insert"
    /\ Cardinality(Named(LastFieldsCall.before, LastFieldsCall.key)) = 2
    /\ Named(LastFieldsCall.before, LastFieldsCall.key) = {1, 3}
    /\ LastFieldsCall.before[1].name.inner # LastFieldsCall.before[3].name.inner
    /\ Len(fields) = 2

(***************************************************************************)
(* src/src/client/cookie.rs: the CookieJar shared by the sessions of a     *)
(* Client.  The CookieStore (crate cookie_store) is modelled by what the   *)
(* jar uses of it: its contents are the sequence of the cookies, [name,    *)
(* value], that match the one URL the sessions request; parse stores a     *)
(* cookie "name=value" under its name and rejects a text without a name.   *)
(* A call is split into the steps it takes outside and inside the store's  *)
(* mutex.                                                                  *)
(***************************************************************************)
\* Sessions calling the jar at the same time
MaxJarSessions == 2
\* Fields of the response header given to parse_from_response
MaxJarFields == 2

MAX_HEADER_VALUE_LEN == 4096

CookieJar_new == [store |-> Some(<<>>)]
CookieJar_new_disabled == [store |-> None]

\* The zero-based index of the first '=' of a text, as str::find
find_equals(text) ==
    IF \E i \in 1..Len(text) : text[i] = 61
    THEN Some((CHOOSE i \in 1..Len(text) :
                  text[i] = 61 /\ \A j \in 1..(i - 1) : text[j] # 61) - 1)
    ELSE None

\* Cookie parsing of the store: Ok(cookie) or Err
parse_cookie(text) ==
    IF IsSome(find_equals(text)) /\ Unwrap(find_equals(text)) > 0
    THEN Some([name |-> SubSeq(text, 1, Unwrap(find_equals(text))),
               value |-> SubSeq(text, Unwrap(find_equals(text)) + 2, Len(text))])
    ELSE None

\* The store keeps one cookie per name
store_insert(contents, cookie) ==
    IF \E i \in 1..Len(contents) : contents[i].name = cookie.name
    THEN [i \in 1..Len(contents) |->
            IF contents[i].name = cookie.name THEN cookie ELSE contents[i]]
    ELSE Append(contents, cookie)

\* CookieStore::parse(text, url): [contents, result]
CookieStore_parse(contents, text) ==
    IF IsSome(parse_cookie(text))
    THEN [contents |-> store_insert(contents, Unwrap(parse_cookie(text))), result |-> Ok]
    ELSE [contents |-> contents, result |-> Err("cookie parse error")]

\* CookieStore::get_request_values(url)
get_request_values(contents) == contents

\* "Set-Cookie"
SetCookieName == <<83, 101, 116, 45, 67, 111, 111, 107, 105, 101>>
\* The fields a response header may carry: "Set-Cookie: a=1",
\* "set-cookie: a=2", "Set-Cookie: =1", which the store rejects, and
\* "k1: b=2"
JarFields ==
    {[name |-> FieldName_new(SetCookieName), value |-> FieldValue_text(<<97, 61, 49>>)],
     [name |-> FieldName_new(to_ascii_lowercase(SetCookieName)),
      value |-> FieldValue_text(<<97, 61, 50>>)],
     [name |-> FieldName_new(SetCookieName), value |-> FieldValue_text(<<61, 49>>)],
     [name |-> FieldName_new(<<107, 49>>), value |-> FieldValue_text(<<98, 61, 50>>)]}

JarSessions == 1..MaxJarSessions

\* A session's call on the jar: the method, where it is, the Set-Cookie
\* values left to parse, and what get_request_string returned
NoCall == [op |-> "none", pc |-> "idle", values |-> <<>>, out |-> None]

JarFrame == UNCHANGED <<session_vars, pool_vars, format_vars, codec_vars, fields_vars, scan_vars, setup_vars>>

\* A client with a jar, enabled or not, and the header of the response its
\* sessions receive
JarInit ==
    /\ SessionIdle /\ ScanIdle /\ SetUpIdle /\ PoolIdle /\ FormatIdle /\ CodecIdle
    /\ fields \in SeqsUpTo(JarFields, MaxJarFields)
    /\ fields_call = None
    /\ cookie_jar \in {CookieJar_new, CookieJar_new_disabled}
    /\ jar_lock = None
    /\ jar_calls = [s \in JarSessions |-> NoCall]

JarOps == {"get", "parse", "clear"}

\* The method returns at once when the jar has no store
Entered_call(op, jar) ==
    [NoCall EXCEPT !.op = op,
                   !.pc = IF IsSome(jar.store) THEN "lock" ELSE "returned",
                   !.out = IF op = "get" /\ jar.store = None THEN Some(<<>>) ELSE None]

\* parse_from_response that gives a disabled jar a store
JarCall_activating(s, op) ==
    /\ jar_calls[s].pc \in {"idle", "returned"}
    /\ cookie_jar' = IF op = "parse" /\ cookie_jar.store = None THEN CookieJar_new
                     ELSE cookie_jar
    /\ jar_calls' = [jar_calls EXCEPT ![s] = Entered_call(op, cookie_jar')]
    /\ UNCHANGED jar_lock
    /\ JarFrame

\* The method is entered; "if let Some(store) = &self.store" decides whether
\* it goes on to lock the store or returns at once
JarCall(s, op) ==
    /\ jar_calls[s].pc \in {"idle", "returned"}
    /\ jar_calls' = [jar_calls EXCEPT ![s] = Entered_call(op, cookie_jar)]
    /\ UNCHANGED <<cookie_jar, jar_lock>>
    /\ JarFrame

\* "store.lock().unwrap()" that does not wait for the owner
JarLock_not_exclusive(s) ==
    /\ jar_calls[s].pc = "lock"
    /\ jar_lock' = Some(s)
    /\ jar_calls' = [jar_calls EXCEPT
            ![s].pc = "locked",
            ![s].values = HeaderFields_get_all(fields, FieldName_new(SetCookieName))]
    /\ UNCHANGED cookie_jar
    /\ JarFrame

\* "let store = store.lock().unwrap();", and for parse_from_response
\* "fields.get_all("Set-Cookie")"
JarLock(s) ==
    /\ jar_calls[s].pc = "lock"
    /\ jar_lock = None
    /\ jar_lock' = Some(s)
    /\ jar_calls' = [jar_calls EXCEPT
            ![s].pc = "locked",
            ![s].values = HeaderFields_get_all(fields, FieldName_new(SetCookieName))]
    /\ UNCHANGED cookie_jar
    /\ JarFrame

\* The call returns and its guard is dropped
JarReturn(s, contents, out) ==
    /\ cookie_jar' = [store |-> Some(contents)]
    /\ jar_lock' = None
    /\ jar_calls' = [jar_calls EXCEPT ![s].pc = "returned", ![s].out = out]
    /\ JarFrame

\* CookieJar::get_request_string under the lock
GetRequestString(s) ==
    /\ jar_calls[s].pc = "locked" /\ jar_calls[s].op = "get"
    /\ JarReturn(s, Unwrap(cookie_jar.store),
                 Some(format_client_header(get_request_values(Unwrap(cookie_jar.store)),
                                           MAX_HEADER_VALUE_LEN)))

\* One turn of the loop of parse_from_response, leaving the loop at a
\* parse error
ParseValue_stopping_at_error(s) ==
    /\ jar_calls[s].pc = "locked" /\ jar_calls[s].op = "parse"
    /\ jar_calls[s].values # <<>>
    /\ \E r \in {CookieStore_parse(Unwrap(cookie_jar.store),
                                   to_string_lossy(jar_calls[s].values[1]))} :
        /\ cookie_jar' = [store |-> Some(r.contents)]
        /\ jar_calls' = [jar_calls EXCEPT ![s].values =
                            IF r.result = Ok THEN Tail(@) ELSE <<>>]
    /\ UNCHANGED jar_lock
    /\ JarFrame

\* One turn of the loop of parse_from_response:
\* "let _ = store.parse(&value.to_string_lossy(), url);"
ParseValue(s) ==
    /\ jar_calls[s].pc = "locked" /\ jar_calls[s].op = "parse"
    /\ jar_calls[s].values # <<>>
    /\ \E r \in {CookieStore_parse(Unwrap(cookie_jar.store),
                                   to_string_lossy(jar_calls[s].values[1]))} :
        /\ cookie_jar' = [store |-> Some(r.contents)]
        /\ jar_calls' = [jar_calls EXCEPT ![s].values = Tail(@)]
    /\ UNCHANGED jar_lock
    /\ JarFrame

\* The loop of parse_from_response is over
ParseReturn(s) ==
    /\ jar_calls[s].pc = "locked" /\ jar_calls[s].op = "parse"
    /\ jar_calls[s].values = <<>>
    /\ JarReturn(s, Unwrap(cookie_jar.store), None)

\* CookieJar::clear under the lock
ClearStore(s) ==
    /\ jar_calls[s].pc = "locked" /\ jar_calls[s].op = "clear"
    /\ JarReturn(s, <<>>, None)

JarNext ==
    \/ \E s \in JarSessions, op \in JarOps : JarCall(s, op)
    \/ \E s \in JarSessions : JarLock(s)
    \/ \E s \in JarSessions : GetRequestString(s)
    \/ \E s \in JarSessions : ParseValue(s)
    \/ \E s \in JarSessions : ParseReturn(s)
    \/ \E s \in JarSessions : ClearStore(s)

JarSpec == JarInit /\ [][JarNext]_vars

\* The session whose call owns the store's mutex
InStore(s) == jar_calls[s].pc = "locked"

\* C16: on a jar built with new_disabled no call changes anything: the jar
\* stays without a store, no call takes a lock or is left waiting, and every
\* get_request_string returns the empty string
C16_DisabledJarIsNoOp ==
    [][cookie_jar.store = None =>
        /\ cookie_jar' = cookie_jar
        /\ jar_lock' = None
        /\ \A s \in JarSessions :
            /\ jar_calls'[s].pc \in {"idle", "returned"}
            /\ jar_calls'[s].op = "get" => jar_calls'[s].out = Some(<<>>)]_vars

\* A disabled jar after parse_from_response on a header with a valid
\* Set-Cookie field and after get_request_string
C16_Witness ==
    /\ cookie_jar.store = None
    /\ \E i \in 1..Len(fields) :
        /\ FieldName_eq(fields[i].name, FieldName_new(SetCookieName))
        /\ IsSome(parse_cookie(to_string_lossy(fields[i].value)))
    /\ \E s, t \in JarSessions :
        /\ jar_calls[s].op = "parse" /\ jar_calls[s].pc = "returned"
        /\ jar_calls[t].op = "get" /\ jar_calls[t].pc = "returned"
        /\ jar_calls[t].out = Some(<<>>)

\* The fields of the header that are named Set-Cookie, in any case
IsSetCookie(field) ==
    to_ascii_lowercase(field.name.normalized) = to_ascii_lowercase(SetCookieName)

\* The cookie a field's value holds, if it is one
FieldCookie(field) == parse_cookie(to_string_lossy(field.value))

\* Position i of the header is a Set-Cookie field with a valid cookie that no
\* later such field of the header replaces
LastValidSetCookie(i) ==
    /\ IsSetCookie(fields[i]) /\ IsSome(FieldCookie(fields[i]))
    /\ \A j \in (i + 1)..Len(fields) :
        ~(/\ IsSetCookie(fields[j]) /\ IsSome(FieldCookie(fields[j]))
          /\ Unwrap(FieldCookie(fields[j])).name = Unwrap(FieldCookie(fields[i])).name)

\* parse_from_response is at the end of its loop
ParseDone(s) ==
    jar_calls[s].op = "parse" /\ InStore(s) /\ jar_calls[s].values = <<>>

\* C17: when parse_from_response has gone through the header, the store
\* holds the cookie of every valid Set-Cookie field, whatever the case of
\* the field's name and whatever invalid values the header has before it
\* (the last one wins for a name), and nothing of the other fields
C17_EverySetCookieParsed ==
    \A s \in JarSessions : ParseDone(s) =>
        /\ \A i \in 1..Len(fields) : LastValidSetCookie(i) =>
            \E k \in 1..Len(Unwrap(cookie_jar.store)) :
                Unwrap(cookie_jar.store)[k] = Unwrap(FieldCookie(fields[i]))
        /\ \A k \in 1..Len(Unwrap(cookie_jar.store)) :
            \E i \in 1..Len(fields) :
                /\ IsSetCookie(fields[i])
                /\ FieldCookie(fields[i]) = Some(Unwrap(cookie_jar.store)[k])

\* A header whose first Set-Cookie value is invalid and whose second, under
\* the lowercase name, is a cookie, which the store has at the end
C17_Witness ==
    /\ Len(fields) = 2
    /\ IsSetCookie(fields[1]) /\ FieldCookie(fields[1]) = None
    /\ fields[2].name.inner # SetCookieName
    /\ LastValidSetCookie(2)
    /\ \E s \in JarSessions : ParseDone(s)
    /\ cookie_jar.store = Some(<<Unwrap(FieldCookie(fields[2]))>>)

\* The store after a whole parse_from_response of the header: one cookie
\* per name, in the order of the names' first valid fields
RECURSIVE StoreOf(_, _)
StoreOf(contents, i) ==
    IF i > Len(fields) THEN contents
    ELSE IF IsSetCookie(fields[i]) /\ IsSome(FieldCookie(fields[i]))
    THEN StoreOf(store_insert(contents, Unwrap(FieldCookie(fields[i]))), i + 1)
    ELSE StoreOf(contents, i + 1)

WholeParse == StoreOf(<<>>, 1)

\* C18: the calls on one jar exclude each other: at most one of them is
\* inside the store at a time, and it is the one that holds the mutex; a
\* get_request_string, whatever calls of parse_from_response and clear run
\* beside it, returns the rendering of the store as it is after a clear or
\* after a whole parse_from_response, never that of a header parsed in part
C18_JarCallsAtomic ==
    /\ \A s, t \in JarSessions : InStore(s) /\ InStore(t) => s = t
    /\ \A s \in JarSessions : InStore(s) <=> jar_lock = Some(s)
    /\ \A s \in JarSessions :
        (jar_calls[s].op = "get" /\ jar_calls[s].pc = "returned"
            /\ IsSome(cookie_jar.store)) =>
        \E contents \in {<<>>, WholeParse} :
            jar_calls[s].out =
                Some(format_client_header(get_request_values(contents),
                                          MAX_HEADER_VALUE_LEN))

\* One session is half way through the Set-Cookie values of a header while
\* another one waits for the mutex in get_request_string
C18_Witness ==
    \E s, t \in JarSessions :
        /\ jar_calls[s].op = "parse" /\ InStore(s)
        /\ Len(jar_calls[s].values) = 1
        /\ Len(HeaderFields_get_all(fields, FieldName_new(SetCookieName))) = 2
        /\ cookie_jar.store # Some(<<>>)
        /\ jar_calls[t].op = "get" /\ jar_calls[t].pc = "lock"

(***************************************************************************)
(* HeaderFields: append and the lookups, under FieldsSpec                  *)
(***************************************************************************)
\* C21: after append(name, value) the fields are the fields of before, in
\* their order, followed by the new pair, whether or not the name was there
C21_AppendKeepsFields ==
    (IsSome(fields_call) /\ LastFieldsCall.op = "append") =>
        /\ Len(fields) = Len(LastFieldsCall.before) + 1
        /\ fields[Len(fields)] =
                [name |-> LastFieldsCall.key, value |-> LastFieldsCall.value]
        /\ \A i \in 1..Len(LastFieldsCall.before) : fields[i] = LastFieldsCall.before[i]

\* An append under a name that two fields already have, one of them
\* spelled in another case
C21_Witness ==
    /\ IsSome(fields_call) /\ LastFieldsCall.op = "append"
    /\ Len(fields) = 3
    /\ \A i \in 1..2 :
        to_ascii_lowercase(fields[i].name.inner) = to_ascii_lowercase(fields[3].name.inner)
    /\ fields[1].name.inner # fields[2].name.inner

\* Two names that differ at most in the case of their letters
SameIgnoringCase(a, b) == to_ascii_lowercase(a.inner) = to_ascii_lowercase(b.inner)

\* The fields whose name is that one up to case, in order
FieldsNamed(inner, key) == SelectSeq(inner, LAMBDA f : SameIgnoringCase(f.name, key))
ValuesNamed(inner, key) ==
    [i \in 1..Len(FieldsNamed(inner, key)) |-> FieldsNamed(inner, key)[i].value]

\* What the last call gives when it is made with another name
SameCallWith(key) ==
    CASE LastFieldsCall.op = "contains_key" ->
            LastFieldsCall.out = HeaderFields_contains_key(fields, key)
      [] LastFieldsCall.op = "get" -> LastFieldsCall.out = HeaderFields_get(fields, key)
      [] LastFieldsCall.op = "get_all" ->
            LastFieldsCall.out = HeaderFields_get_all(fields, key)
      [] LastFieldsCall.op = "remove" ->
            fields = HeaderFields_remove(LastFieldsCall.before, key)
      [] OTHER -> TRUE

\* C22: contains_key, get, get_all and remove give the same for every
\* spelling of the name that differs only in the case of its letters;
\* contains_key tells whether a field has the name up to case, get returns
\* the value of the first such field, get_all the values of all of them in
\* the order of the fields, and remove leaves the other fields in order
C22_LookupIgnoresCase ==
    IsSome(fields_call) =>
        /\ \A key \in FieldNames :
            SameIgnoringCase(key, LastFieldsCall.key) => SameCallWith(key)
        /\ LastFieldsCall.op = "contains_key" =>
            (LastFieldsCall.out <=> ValuesNamed(fields, LastFieldsCall.key) # <<>>)
        /\ LastFieldsCall.op = "get" =>
            LastFieldsCall.out =
                IF ValuesNamed(fields, LastFieldsCall.key) = <<>> THEN None
                ELSE Some(ValuesNamed(fields, LastFieldsCall.key)[1])
        /\ LastFieldsCall.op = "get_all" =>
            LastFieldsCall.out = ValuesNamed(fields, LastFieldsCall.key)
        /\ LastFieldsCall.op = "remove" =>
            fields = SelectSeq(LastFieldsCall.before,
                               LAMBDA f : ~SameIgnoringCase(f.name, LastFieldsCall.key))

\* get_all("K1") on fields named k1, k2, K1 with three different values
\* returned the first and the third value
C22_Witness ==
    /\ IsSome(fields_call) /\ LastFieldsCall.op = "get_all"
    /\ Len(fields) = 3
    /\ fields[1].name.inner # fields[3].name.inner
    /\ SameIgnoringCase(fields[1].name, fields[3].name)
    /\ ~SameIgnoringCase(fields[1].name, fields[2].name)
    /\ LastFieldsCall.key = fields[3].name
    /\ fields[1].value # fields[3].value
    /\ LastFieldsCall.out = <<fields[1].value, fields[3].value>>

(***************************************************************************)
(* src/src/http/parse.rs: scan_header_boundary on a buffer that grows, as  *)
(* the send and receive buffers of a CallbackHandler do.                   *)
(***************************************************************************)
\* Bytes in the scanned buffer
MaxScan == 6

\* '\n', '\r', ' ' and 'a'
ScanBytes == {LF, CR, 32, 97}

ScanFrame ==
    UNCHANGED <<session_vars, pool_vars, jar_vars, format_vars, codec_vars, fields_vars,
                setup_vars>>

ScanInit ==
    /\ SessionIdle /\ PoolIdle /\ JarIdle /\ FormatIdle /\ CodecIdle /\ FieldsIdle
    /\ SetUpIdle
    /\ scan_data \in SeqsUpTo(ScanBytes, MaxScan)
    /\ scan_call = None

\* scan_header_boundary(&buffer)
ScanHeaderBoundary ==
    /\ scan_call' = Some([data |-> scan_data, out |-> scan_header_boundary(scan_data)])
    /\ UNCHANGED scan_data
    /\ ScanFrame

\* buffer.extend_from_slice(data), a byte at a time
ScanExtend(b) ==
    /\ Len(scan_data) < MaxScan
    /\ scan_data' = Append(scan_data, b)
    /\ UNCHANGED scan_call
    /\ ScanFrame

ScanNext ==
    \/ ScanHeaderBoundary
    \/ \E b \in ScanBytes : ScanExtend(b)

ScanSpec == ScanInit /\ [][ScanNext]_vars

LastScan == Unwrap(scan_call)

\* The line of data that ends at position i: i holds a newline and the
\* line starts after the newline before it
LineStart(data, i) ==
    IF \E j \in 1..(i - 1) : data[j] = LF
    THEN 1 + CHOOSE j \in 1..(i - 1) : data[j] = LF /\ \A k \in (j + 1)..(i - 1) : data[k] # LF
    ELSE 1

\* Position i ends a line of data made of whitespace only
BlankLineEndsAt(data, i) ==
    /\ data[i] = LF
    /\ \A k \in LineStart(data, i)..i : data[k] \in {9, 10, 12, 13, 32}

\* C23: scan_header_boundary returns the offset just after the first line
\* that ends in a newline and holds only whitespace, and none when the
\* buffer has no such line: an empty buffer, or one whose only blank line is
\* a last fragment without its newline
C23_BoundaryAfterFirstBlankLine ==
    IsSome(scan_call) =>
        IF \E i \in 1..Len(LastScan.data) : BlankLineEndsAt(LastScan.data, i)
        THEN /\ IsSome(LastScan.out)
             /\ Unwrap(LastScan.out) \in 1..Len(LastScan.data)
             /\ BlankLineEndsAt(LastScan.data, Unwrap(LastScan.out))
             /\ \A i \in 1..(Unwrap(LastScan.out) - 1) : ~BlankLineEndsAt(LastScan.data, i)
        ELSE LastScan.out = None

\* "a\r\n\r\na" gives 5, as "abc\r\n\r\nxyz" gives 7
C23_Witness ==
    /\ IsSome(scan_call)
    /\ LastScan.data = <<97, CR, LF, CR, LF, 97>>
    /\ LastScan.out = Some(5)

\* C24: once a scan has found the boundary at an offset, every later scan
\* of the buffer, which has only grown, finds it at that offset; and a
\* boundary first found by a later scan lies in what was added since
C24_BoundaryStableUnderAppend ==
    [][(IsSome(scan_call) /\ IsSome(scan_call')) =>
        IF IsSome(LastScan.out)
        THEN Unwrap(scan_call').out = LastScan.out
        ELSE IsSome(Unwrap(scan_call').out) =>
                Unwrap(Unwrap(scan_call').out) > Len(LastScan.data)]_vars

\* The boundary was found at 2 in "\r\n", and again at 2 after the buffer
\* had grown by a second blank line
C24_Witness ==
    /\ IsSome(scan_call)
    /\ LastScan.out = Some(2)
    /\ LastScan.data = <<CR, LF, 97, LF, LF>>

(***************************************************************************)
(* The callbacks of a session, under Spec: framing states, raw events      *)
(***************************************************************************)
\* The events the handler was given by the latest callback, in order
Delivered == CH.handler.delivered

\* The transport's perform call returns
TransportReturns ==
    \E t \in {Ok, Err("aborted_by_callback"), Err("transport_failure")} : PerformReturn(t)

RawTypes ==
    {"HeaderSent", "HeaderReceived", "BodySent", "BodyReceived", "ContentSent",
     "ContentReceived", "Connected", "Progress"}

\* C25: in an FTP session the callback state is Ftp throughout, both header
\* buffers stay empty, no header parse error is captured, and the handler
\* is given no request, response or trailer event, only header-bytes,
\* body-bytes, content, connection and progress events
C25_FtpNeverFrames ==
    mode = "Ftp" =>
        /\ TheHandler.structured = <<>>
        /\ InPerform =>
            /\ CH.state = "Ftp"
            /\ CH.send_buf = <<>> /\ CH.receive_buf = <<>>
            /\ IsSome(CH.error) => Unwrap(CH.error).source = "handler"
            /\ \A i \in 1..Len(Delivered) : Delivered[i].type \in RawTypes

\* An FTP session whose header callback was given a blank line, after a
\* header callback that ended a line
C25_Witness ==
    /\ mode = "Ftp" /\ InPerform /\ IsSome(frame)
    /\ LastCall.cb = "header" /\ LastCall.input = BlankLine /\ LastCall.result = Ok
    /\ Delivered = <<[type |-> "HeaderReceived", data |-> BlankLine]>>

StateAfter(state) ==
    CASE state = "HttpRequest" -> "HttpResponse"
      [] state = "HttpResponse" -> "HttpResponseTrailer"
      [] state = "HttpResponseTrailer" -> "Finished"
      [] OTHER -> "none"

\* C26: a callback leaves the callback state as it is or moves it to the
\* next state of HttpRequest, HttpResponse, HttpResponseTrailer, Finished;
\* it moves it only when it is the callback of an outbound header chunk (for
\* the first step) or of an inbound one (for the others) and the buffer,
\* with the chunk added, holds a boundary
C26_StateStepsForwardOnBoundary ==
    [][(CallbackStep /\ CH'.state # CH.state) =>
        /\ CH'.state = StateAfter(CH.state)
        /\ IF CH.state = "HttpRequest"
           THEN /\ Unwrap(frame').cb = "debug"
                /\ Unwrap(frame').input.info_type = "HeaderOut"
                /\ CH'.send_buf = CH.send_buf \o Unwrap(frame').input.data
                /\ IsSome(scan_header_boundary(CH'.send_buf))
           ELSE /\ Unwrap(frame').cb = "header"
                /\ CH'.receive_buf = CH.receive_buf \o Unwrap(frame').input
                /\ IsSome(scan_header_boundary(CH'.receive_buf))]_vars

\* The header callback of the blank line that ends the response header has
\* taken the session from HttpResponse to HttpResponseTrailer
C26_Witness ==
    /\ InPerform /\ IsSome(frame)
    /\ CH.state = "HttpResponseTrailer"
    /\ LastCall.cb = "header" /\ LastCall.input = BlankLine
    /\ CH.receive_buf = StatusLine \o BlankLine
    /\ Len(Delivered) = 2 /\ Delivered[2].type = "HttpResponse"

\* The latest callback ended in a header parse error
ParseFailed(call) == call.result # Ok /\ Unwrap(call.result).source = "parse"

\* C27: a callback whose header parse fails returns to the transport with
\* the parse error in the error slot and the abort flag set, with the state
\* as it was and no request, response or trailer event delivered; and while
\* the transport's call runs it can return to the session
C27_ParseFailureCaptured ==
    /\ [][(CallbackStep /\ ParseFailed(Unwrap(frame'))) =>
            /\ pc' = "perform"
            /\ CH'.error = Unwrap(frame').result
            /\ CH'.control.aborted
            /\ CH'.state = CH.state
            /\ CH'.handler.structured = CH.handler.structured
            /\ \A i \in 1..Len(CH'.handler.delivered) :
                CH'.handler.delivered[i].type \notin StructuredTypes]_vars
    /\ [](InPerform => ENABLED TransportReturns)

\* A response header block that is malformed was parsed at its blank line,
\* in a session that had no error and was not aborted
C27_Witness ==
    /\ InPerform /\ IsSome(frame)
    /\ LastCall.cb = "header" /\ LastCall.input = BlankLine
    /\ ~LastCall.aborted_before
    /\ ParseFailed(LastCall)
    /\ CH.state = "HttpResponse"
    /\ CH.error = Some(ParseError("HTTP response header parse error"))
    /\ CH.control.aborted

\* C28: every progress callback gives the handler one event, a progress
\* event with the four counters of the call in the order download total,
\* download current, upload total, upload current, whether or not the
\* counters are those of the callback before
C28_ProgressEveryCall ==
    (InPerform /\ IsSome(frame) /\ LastCall.cb = "progress") =>
        Delivered = <<[type |-> "Progress",
                       download_total |-> LastCall.input[1],
                       download_current |-> LastCall.input[2],
                       upload_total |-> LastCall.input[3],
                       upload_current |-> LastCall.input[4]]>>

\* A progress callback with the counters of the progress callback before it
C28_Witness ==
    /\ InPerform /\ IsSome(frame)
    /\ LastCall.cb = "progress" /\ LastCall.repeated
    /\ LastCall.input[1] # LastCall.input[2]
    /\ Len(Delivered) = 1 /\ Delivered[1].type = "Progress"

\* The callback of a header chunk: its raw event type and its chunk
IsHeaderCall(call) ==
    \/ call.cb = "header"
    \/ call.cb = "debug" /\ call.input.info_type = "HeaderOut"
HeaderChunk(call) == IF call.cb = "header" THEN call.input ELSE call.input.data
HeaderRawType(call) == IF call.cb = "header" THEN "HeaderReceived" ELSE "HeaderSent"

\* C29: the callback of a header chunk gives the handler first the raw
\* event of the chunk (HeaderSent outbound, HeaderReceived inbound), once,
\* in every state, and after it at most one request, response or trailer
\* event; a buffer changes only by having the chunk appended, and only when
\* the handler returned no error for the raw event
C29_RawHeaderEventFirst ==
    [][(CallbackStep /\ IsHeaderCall(Unwrap(frame'))) =>
        /\ Len(CH'.handler.delivered) \in {1, 2}
        /\ CH'.handler.delivered[1] =
                [type |-> HeaderRawType(Unwrap(frame')),
                 data |-> HeaderChunk(Unwrap(frame'))]
        /\ Len(CH'.handler.delivered) = 2 =>
                CH'.handler.delivered[2].type \in StructuredTypes
        /\ CH'.send_buf \in {CH.send_buf, CH.send_buf \o HeaderChunk(Unwrap(frame'))}
        /\ CH'.receive_buf \in
                {CH.receive_buf, CH.receive_buf \o HeaderChunk(Unwrap(frame'))}
        /\ (CH'.send_buf # CH.send_buf \/ CH'.receive_buf # CH.receive_buf) =>
                Unwrap(frame').result # Err(HandlerError(HeaderRawType(Unwrap(frame'))))]_vars

\* The chunk that completes the request header gave HeaderSent and then
\* HttpRequest
C29_Witness ==
    /\ InPerform /\ IsSome(frame)
    /\ LastCall.cb = "debug" /\ LastCall.input.info_type = "HeaderOut"
    /\ Len(Delivered) = 2
    /\ Delivered[1] = [type |-> "HeaderSent", data |-> BlankLine]
    /\ Delivered[2].type = "HttpRequest"
    /\ CH.send_buf = RequestLine \o BlankLine

IsBodyCall(call) == call.cb = "debug" /\ call.input.info_type \in {"DataIn", "DataOut"}

\* C30: the callback of outbound or inbound body bytes gives the handler
\* one event, BodySent or BodyReceived, with the bytes as they came, in
\* every state, and leaves the callback state and both header buffers as
\* they were
C30_BodyBytesVerbatim ==
    [][(CallbackStep /\ IsBodyCall(Unwrap(frame'))) =>
        /\ CH'.handler.delivered =
            <<[type |-> IF Unwrap(frame').input.info_type = "DataOut"
                        THEN "BodySent" ELSE "BodyReceived",
               data |-> Unwrap(frame').input.data]>>
        /\ CH'.state = CH.state
        /\ CH'.send_buf = CH.send_buf
        /\ CH'.receive_buf = CH.receive_buf]_vars

\* Body bytes were reported as sent while the request header was half way
C30_Witness ==
    /\ InPerform /\ IsSome(frame)
    /\ LastCall.cb = "debug" /\ LastCall.input.info_type = "DataOut"
    /\ LastCall.input.data # <<>>
    /\ CH.state = "HttpRequest" /\ CH.send_buf = RequestLine
    /\ Delivered = <<[type |-> "BodySent", data |-> LastCall.input.data]>>

(***************************************************************************)
(* The upload-content and the diagnostic callback, under Spec              *)
(***************************************************************************)
\* SessionHandler::upload_content as the trait defines it: "Ok(0)"
DefaultUpload == [abort |-> FALSE, fail |-> FALSE, size |-> 0]

\* C31: an upload-content callback in which the handler returned the count
\* n and no error, and after which the session is not aborted, gave the
\* handler one event, ContentSent with the first n bytes of the buffer, and
\* returned n to the transport; the handler that keeps the trait's
\* upload_content has n = 0
C31_UploadCountForwarded ==
    /\ (InPerform /\ IsSome(frame) /\ LastCall.cb = "read"
            /\ LastCall.result = Ok /\ ~CH.control.aborted) =>
        /\ Delivered = <<[type |-> "ContentSent",
                          data |-> [i \in 1..LastCall.input.count |-> ContentByte]]>>
        /\ LastCall.input.count <= LastCall.input.buf_len
        /\ LastCall.ret = ReadOk(LastCall.input.count)
    /\ handler_upload_content(CallbackHandler_new(NewHandler, "Http"),
                              DefaultUpload).size = 0
    /\ handler_upload_content(CallbackHandler_new(NewHandler, "Http"),
                              DefaultUpload).result = Ok

\* The handler left a buffer of one byte empty: an empty ContentSent, and 0
\* returned
C31_Witness ==
    /\ InPerform /\ IsSome(frame) /\ LastCall.cb = "read"
    /\ LastCall.result = Ok /\ ~CH.control.aborted
    /\ LastCall.input.buf_len = 1 /\ LastCall.input.count = 0
    /\ Delivered = <<[type |-> "ContentSent", data |-> <<>>]>>
    /\ LastCall.ret = ReadOk(0)

IsLogCall(call) == call.cb = "debug" /\ call.input.info_type = "Text"

\* The line names an address and a port that can be read
HasSocketAddress(text) ==
    text.matches /\ text.address \in ValidIpAddrs /\ text.port \in 0..U16_MAX

\* C32: the callback of a diagnostic line that does not match the pattern,
\* or whose address or port cannot be read, gives the handler no event and
\* leaves the error slot and the abort flag as they were; for a line that
\* has both, the handler is given one Connected event with that address and
\* port
C32_LogLineSkippedOrConnected ==
    [][(CallbackStep /\ IsLogCall(Unwrap(frame'))) =>
        IF HasSocketAddress(Unwrap(frame').input.data)
        THEN CH'.handler.delivered =
                <<[type |-> "Connected",
                   address |-> [ip |-> Unwrap(frame').input.data.address,
                                port |-> Unwrap(frame').input.data.port]]>>
        ELSE /\ CH'.handler.delivered = <<>>
             /\ CH'.error = CH.error
             /\ CH'.control = CH.control
             /\ Unwrap(frame').result = Ok]_vars

\* A line that matches the pattern with a port beyond 65535 was skipped in
\* a session without error
C32_Witness ==
    /\ InPerform /\ IsSome(frame) /\ IsLogCall(LastCall)
    /\ LastCall.input.data.matches /\ LastCall.input.data.port > U16_MAX
    /\ Delivered = <<>>
    /\ CH.error = None /\ ~CH.control.aborted

(***************************************************************************)
(* src/src/string/escape.rs: the escape code points of the bytes           *)
(***************************************************************************)
\* Code points given to escape_seq_to_byte: the two ranges of escape code
\* points with what lies around them, the two markers, and the ends of the
\* code space
EscapeChars ==
    (65020..65043) \cup (917755..918003) \cup {ESCAPE_CHAR, LITERAL_SEQ_CHAR, 0, 1114111}

EscapeInit ==
    /\ SessionIdle /\ ScanIdle /\ SetUpIdle /\ PoolIdle /\ JarIdle /\ FormatIdle /\ FieldsIdle
    /\ \/ \E byte \in 0..255 :
            codec_call = Some([of |-> "byte", byte |-> byte, ch |-> None, back |-> None])
       \/ \E ch \in EscapeChars :
            codec_call = Some([of |-> "char", ch |-> Some(ch), back |-> None])

\* byte_to_escape_seq(byte)
ByteToEscapeSeq ==
    /\ CodecCall.of = "byte" /\ CodecCall.ch = None
    /\ codec_call' = Some([CodecCall EXCEPT !.ch = Some(byte_to_escape_seq(CodecCall.byte))])
    /\ CodecFrame

\* escape_seq_to_byte(ch): back is Some(the Option returned)
EscapeSeqToByte ==
    /\ IsSome(CodecCall.ch) /\ CodecCall.back = None
    /\ codec_call' = Some([CodecCall EXCEPT
            !.back = Some(escape_seq_to_byte(Unwrap(CodecCall.ch)))])
    /\ CodecFrame

EscapeNext ==
    \/ ByteToEscapeSeq
    \/ EscapeSeqToByte

EscapeSpec == EscapeInit /\ [][EscapeNext]_vars

\* C33: the escape code point of a byte is a code point other than the two
\* markers, no other byte has it, and escape_seq_to_byte gives the byte
\* back; escape_seq_to_byte gives a byte only for a code point that is the
\* escape code point of that byte
C33_EscapeCodePointsInvert ==
    /\ (CodecCall.of = "byte" /\ IsSome(CodecCall.ch)) =>
        /\ Unwrap(CodecCall.ch) \notin {ESCAPE_CHAR, LITERAL_SEQ_CHAR}
        /\ Unwrap(CodecCall.ch) \in 0..1114111
        /\ \A other \in 0..255 :
            other # CodecCall.byte => byte_to_escape_seq(other) # Unwrap(CodecCall.ch)
        /\ IsSome(CodecCall.back) => Unwrap(CodecCall.back) = Some(CodecCall.byte)
    /\ (CodecCall.of = "char" /\ IsSome(CodecCall.back)) =>
        IF \E byte \in 0..255 : byte_to_escape_seq(byte) = Unwrap(CodecCall.ch)
        THEN \E byte \in 0..255 :
                /\ byte_to_escape_seq(byte) = Unwrap(CodecCall.ch)
                /\ Unwrap(CodecCall.back) = Some(byte)
        ELSE Unwrap(CodecCall.back) = None

\* Byte 0xFF went to U+E01EF and came back
C33_Witness ==
    /\ CodecCall.of = "byte" /\ CodecCall.byte = 255
    /\ CodecCall.ch = Some(917999)
    /\ CodecCall.back = Some(Some(255))

(***************************************************************************)
(* format_client_header: the form of the rendered string, under FormatSpec *)
(***************************************************************************)
\* name=value, the value between double quotes if it has a space in it
RenderedEntry(cookie) ==
    cookie.name \o <<61>>
        \o (IF 32 \in {cookie.value[i] : i \in 1..Len(cookie.value)}
            THEN <<34>> \o cookie.value \o <<34>>
            ELSE cookie.value)

\* The entries joined by "; "
RECURSIVE JoinEntries(_)
JoinEntries(entries) ==
    IF entries = <<>> THEN <<>>
    ELSE IF Len(entries) = 1 THEN RenderedEntry(entries[1])
    ELSE RenderedEntry(entries[1]) \o <<59, 32>> \o JoinEntries(Tail(entries))

\* The entries among the first k that format_client_header accepts: entry k
\* is accepted when what is rendered before it, with its name, its value
\* and 4 more, is within the budget
RECURSIVE AcceptedEntries(_, _, _)
AcceptedEntries(cookies, k, max_len) ==
    IF k = 0 THEN <<>>
    ELSE LET before == AcceptedEntries(cookies, k - 1, max_len)
         IN IF Len(JoinEntries(before)) + Len(cookies[k].name) + Len(cookies[k].value) + 4
                    <= max_len
            THEN Append(before, cookies[k])
            ELSE before

\* C34: the rendered string is the accepted entries in their order, each as
\* name=value with the value in double quotes exactly when it has a space,
\* joined by "; ", with no separator before the first or after the last
C34_RenderedForm ==
    (IsSome(format_call) /\ IsSome(FormatCall.out)) =>
        Unwrap(FormatCall.out) = JoinEntries(AcceptedEntries(FormatCall.cookies,
                                                Len(FormatCall.cookies),
                                                FormatCall.max_len))

\* k1=v1; k="v 3", both entries accepted
C34_Witness ==
    /\ IsSome(format_call) /\ IsSome(FormatCall.out)
    /\ Len(FormatCall.cookies) = 2
    /\ Unwrap(FormatCall.out) = <<107, 49, 61, 118, 49, 59, 32, 107, 61, 34, 118, 32, 51, 34>>

(***************************************************************************)
(* The end of a session the handler aborted                                *)
(***************************************************************************)
\* C35: when the transport's perform call returns in a session whose abort
\* flag is set, whichever callback the handler set it in, the session's
\* result is an error.
C35_AbortedSessionFails ==
    [][(pc = "perform" /\ pc' = "done" /\ CH.control.aborted)
          => Unwrap(returned').result # Ok]_vars

(***************************************************************************)
(* Client::submit with a scheme it does not support                        *)
(***************************************************************************)
UnsupportedSchemes == Schemes \ {"http", "https", "ftp"}

\* C40: submit with a scheme other than http, https and ftp returns the
\* handler, with no event passed to it, and an UnsupportedFeature error of
\* that scheme; the pool is as before, the session holds no handle, the
\* cookie jar is not locked or changed, and no CallbackHandler is made.
C40_UnsupportedSchemeRefused ==
    [][\A scheme \in UnsupportedSchemes : \A a \in BOOLEAN, b \in BOOLEAN :
          Submit(scheme, a, b) =>
             /\ returned' = Some([handler |-> NewHandler,
                                  result |-> Err([kind |-> "UnsupportedFeature",
                                                  feature |-> scheme])])
             /\ connection_pool' = connection_pool
             /\ curl_handle' = None
             /\ callback_handler' = None
             /\ UNCHANGED jar_vars]_vars

\* A gopher URL submitted after a session that left its handle in the pool
C40_Witness ==
    /\ pc = "done" /\ mode = "NoSession"
    /\ returned = Some([handler |-> NewHandler,
                        result |-> Err([kind |-> "UnsupportedFeature",
                                        feature |-> "gopher"])])
    /\ Len(connection_pool) = 1
    /\ curl_handle = None

(***************************************************************************)
(* The places of the transport handles, under PoolSpec                     *)
(***************************************************************************)
\* The sessions of the bag that hold a handle, and those waiting for one
Holding(held) == BagCardinality(held) - CopiesIn(None, held)
Acquiring(held) == CopiesIn(None, held)
\* The places handles are in: the slots of the pool and the sessions holding
Places(handles, held) == Len(handles) + Holding(held)

\* C36: no step puts a handle in two places.  The places taken grow only by
\* one, when an acquirer finds the pool empty and gets a handle made for it;
\* a handle that leaves the pool goes to exactly one acquirer, and a handle
\* that enters the pool has left the session that held it.
C36_HandleInOnePlace ==
    [][/\ Places(connection_pool', sessions') <= Places(connection_pool, sessions) + 1
       /\ Places(connection_pool', sessions') > Places(connection_pool, sessions)
            => /\ connection_pool = <<>> /\ connection_pool' = <<>>
               /\ Acquiring(sessions') = Acquiring(sessions) - 1
               /\ CopiesIn(Some(EasyNew), sessions')
                      = CopiesIn(Some(EasyNew), sessions) + 1
       /\ Len(connection_pool') < Len(connection_pool)
            => /\ connection_pool' = SubSeq(connection_pool, 1, Len(connection_pool) - 1)
               /\ Holding(sessions') = Holding(sessions) + 1
               /\ Acquiring(sessions') = Acquiring(sessions) - 1
       /\ Len(connection_pool') > Len(connection_pool)
            => /\ Len(connection_pool') = Len(connection_pool) + 1
               /\ Holding(sessions') = Holding(sessions) - 1
               /\ BagIn(Some(connection_pool'[Len(connection_pool')]), sessions)]_vars

\* A handle was taken from a pool holding two while a second acquirer is
\* waiting and two other sessions hold handles
C36_Witness ==
    /\ IsSome(pool_call) /\ LastPoolCall.op = "get"
    /\ Len(LastPoolCall.before) = 2 /\ Len(connection_pool) = 1
    /\ Acquiring(sessions) >= 1
    /\ Holding(sessions) >= 3

(***************************************************************************)
(* src/src/client/curl.rs: the set-up of an HTTP session.  The options of  *)
(* the transport handle are a record of the values set on it, None for an  *)
(* option left at its default; the handle comes from get_curl_handle, new  *)
(* or reset.  The transport accepts every option.  The session then        *)
(* receives a response header, whose fields it passes to the handler.      *)
(***************************************************************************)
\* Header fields of the client's Config and of a Request
MaxHeaders == 2

\* "gzip"
Gzip == <<103, 122, 105, 112>>

DefaultOptions ==
    [http_09_allowed |-> None, useragent |-> None, accept_encoding |-> None,
     cookie |-> None, http_headers |-> None]

\* impl Display for FieldValue
FieldValue_fmt(value) ==
    IF value.tag = "Text" THEN value.text ELSE parse_utf8_escaped(value.data)

\* format!("{}:{}", name, value)
format_header_field(name, value) == name.inner \o <<58>> \o FieldValue_fmt(value)

\* CurlSession::set_up_http_settings
set_up_http_settings(options, config) ==
    [options EXCEPT
        !.http_09_allowed = Some(config.http_09),
        !.useragent = IF config.http_user_agent # <<>>
                      THEN Some(config.http_user_agent) ELSE @,
        !.accept_encoding = IF ~config.http_compression THEN Some(Gzip) ELSE @]

\* CookieJar::get_request_string, the whole call
CookieJar_get_request_string(jar) ==
    IF IsSome(jar.store)
    THEN format_client_header(get_request_values(Unwrap(jar.store)), MAX_HEADER_VALUE_LEN)
    ELSE <<>>

\* The loop of CookieJar::parse_from_response over the Set-Cookie values
RECURSIVE parse_values(_, _)
parse_values(contents, values) ==
    IF values = <<>> THEN contents
    ELSE parse_values(CookieStore_parse(contents, to_string_lossy(values[1])).contents,
                      Tail(values))

\* CookieJar::parse_from_response, the whole call
CookieJar_parse_from_response(jar, response) ==
    IF IsSome(jar.store)
    THEN [store |-> Some(parse_values(Unwrap(jar.store),
                            HeaderFields_get_all(response, FieldName_new(SetCookieName))))]
    ELSE jar

\* CurlSession::set_up_http_cookies
set_up_http_cookies(options, jar) ==
    [options EXCEPT !.cookie = IF CookieJar_get_request_string(jar) # <<>>
                               THEN Some(CookieJar_get_request_string(jar)) ELSE @]

\* The first loop of set_up_http_headers
RECURSIVE config_header_list(_, _)
config_header_list(config_headers, request_headers) ==
    IF config_headers = <<>> THEN <<>>
    ELSE (IF ~HeaderFields_contains_key(request_headers, config_headers[1].name)
          THEN <<format_header_field(config_headers[1].name, config_headers[1].value)>>
          ELSE <<>>)
         \o config_header_list(Tail(config_headers), request_headers)

\* The second loop of set_up_http_headers
request_header_list(request_headers) ==
    [i \in 1..Len(request_headers) |->
        format_header_field(request_headers[i].name, request_headers[i].value)]

\* set_up_http_headers sending every header of the client's Config
set_up_http_headers_unfiltered(options, config, request) ==
    [options EXCEPT !.http_headers =
        Some(request_header_list(config.http_headers)
                \o request_header_list(request.http_headers))]

\* CurlSession::set_up_http_headers
set_up_http_headers(options, config, request) ==
    [options EXCEPT !.http_headers =
        Some(config_header_list(config.http_headers, request.http_headers)
                \o request_header_list(request.http_headers))]

\* "k1: v1", "K1: v2", "k2: v1"
SetUpFields ==
    {[name |-> FieldName_new(<<107, 49>>), value |-> FieldValue_text(<<118, 49>>)],
     [name |-> FieldName_new(<<75, 49>>), value |-> FieldValue_text(<<118, 50>>)],
     [name |-> FieldName_new(<<107, 50>>), value |-> FieldValue_text(<<118, 49>>)]}

\* Config: the user agent is "" or "ua"
Configs ==
    [http_user_agent : {<<>>, <<117, 97>>},
     http_headers : SeqsUpTo(SetUpFields, MaxHeaders),
     http_09 : BOOLEAN,
     http_compression : BOOLEAN]

Requests == [http_headers : SeqsUpTo(SetUpFields, MaxHeaders)]

\* The jar of the client: disabled, empty, or holding the cookie a=0
SetUpJars ==
    {CookieJar_new_disabled, CookieJar_new,
     [store |-> Some(<<[name |-> <<97>>, value |-> <<48>>]>>)]}

\* The fields of the response header: none, "k1: b=2", "Set-Cookie: a=1", or
\* "Set-Cookie: a=1" and "set-cookie: a=2"
Responses ==
    {<<>>,
     <<[name |-> FieldName_new(<<107, 49>>), value |-> FieldValue_text(<<98, 61, 50>>)]>>,
     <<[name |-> FieldName_new(SetCookieName), value |-> FieldValue_text(<<97, 61, 49>>)]>>,
     <<[name |-> FieldName_new(SetCookieName), value |-> FieldValue_text(<<97, 61, 49>>)],
       [name |-> FieldName_new(to_ascii_lowercase(SetCookieName)),
        value |-> FieldValue_text(<<97, 61, 50>>)]>>}

SetUpCall == Unwrap(setup_call)

SetUpFrame ==
    UNCHANGED <<session_vars, pool_vars, format_vars, codec_vars, fields_vars, scan_vars>>

\* Client::submit has made the session: CurlSession::new_http
SetUpInit ==
    /\ SessionIdle /\ ScanIdle /\ PoolIdle /\ FormatIdle /\ CodecIdle /\ FieldsIdle
    /\ cookie_jar \in SetUpJars
    /\ jar_lock = None
    /\ jar_calls = <<>>
    /\ \E config \in Configs, request \in Requests, response \in Responses :
          setup_call = Some([config |-> config, request |-> request,
                             response |-> response, options |-> None, event |-> None])

\* CurlSession::set_up of an HTTP session, after the options common to both
\* modes: set_up_http_settings, set_up_http_cookies, set_up_http_headers
SetUpHttp ==
    /\ IsSome(setup_call) /\ SetUpCall.options = None
    /\ setup_call' = Some([SetUpCall EXCEPT !.options =
            Some(set_up_http_headers(
                    set_up_http_cookies(
                        set_up_http_settings(DefaultOptions, SetUpCall.config),
                        cookie_jar),
                    SetUpCall.config, SetUpCall.request))])
    /\ UNCHANGED jar_vars
    /\ SetUpFrame

\* The response header is parsed and the session stores its cookies
ReceiveResponseHeader_storing_cookies ==
    /\ IsSome(setup_call) /\ IsSome(SetUpCall.options) /\ SetUpCall.event = None
    /\ setup_call' = Some([SetUpCall EXCEPT !.event =
            Some([type |-> "HttpResponse", fields |-> SetUpCall.response])])
    /\ cookie_jar' = CookieJar_parse_from_response(cookie_jar, SetUpCall.response)
    /\ UNCHANGED <<jar_lock, jar_calls>>
    /\ SetUpFrame

\* handle_receive_header at the blank line of the response header: the
\* header is parsed and passed to the handler as an HttpResponse event
ReceiveResponseHeader ==
    /\ IsSome(setup_call) /\ IsSome(SetUpCall.options) /\ SetUpCall.event = None
    /\ setup_call' = Some([SetUpCall EXCEPT !.event =
            Some([type |-> "HttpResponse", fields |-> SetUpCall.response])])
    /\ UNCHANGED jar_vars
    /\ SetUpFrame

SetUpNext ==
    \/ SetUpHttp
    \/ ReceiveResponseHeader

SetUpSpec == SetUpInit /\ [][SetUpNext]_vars

\* The options set on the handle of the session
Options == Unwrap(SetUpCall.options)

\* C37: no step of the session changes the cookie jar or leaves it locked,
\* and the cookie value the set-up gives the transport is the rendering of
\* the jar as it is: the value is set exactly when the rendering is not
\* empty.
C37_SessionLeavesJar ==
    [][IsSome(setup_call) =>
          /\ cookie_jar' = cookie_jar
          /\ jar_lock' = None
          /\ jar_calls' = jar_calls
          /\ (SetUpCall.options = None /\ IsSome(Unwrap(setup_call').options)) =>
                Unwrap(Unwrap(setup_call').options).cookie =
                    IF IsSome(cookie_jar.store) /\ Unwrap(cookie_jar.store) # <<>>
                    THEN Some(<<97, 61, 48>>)
                    ELSE None]_vars

\* A jar holding a=0 after the session was set up with the cookie value
\* "a=0" and received a response header with two Set-Cookie fields
C37_Witness ==
    /\ IsSome(setup_call) /\ IsSome(SetUpCall.options) /\ IsSome(SetUpCall.event)
    /\ Len(Unwrap(SetUpCall.event).fields) = 2
    /\ Options.cookie = Some(<<97, 61, 48>>)
    /\ cookie_jar = [store |-> Some(<<[name |-> <<97>>, value |-> <<48>>]>>)]

\* The fields of the Config whose name is not, in any case of its letters,
\* the name of a field of the Request
KeptOfConfig ==
    {i \in 1..Len(SetUpCall.config.http_headers) :
        \A j \in 1..Len(SetUpCall.request.http_headers) :
            SetUpCall.config.http_headers[i].name.normalized
                # SetUpCall.request.http_headers[j].name.normalized}

\* "name:value"
HeaderLine(field) == field.name.inner \o <<58>> \o field.value.text

\* C38: the header list given to the transport is the kept fields of the
\* Config in their order, then every field of the Request in its order.
C38_HeaderListOrder ==
    (IsSome(setup_call) /\ IsSome(SetUpCall.options)) =>
        /\ IsSome(Options.http_headers)
        /\ Len(Unwrap(Options.http_headers))
              = Cardinality(KeptOfConfig) + Len(SetUpCall.request.http_headers)
        /\ \A i \in KeptOfConfig :
              Unwrap(Options.http_headers)[Cardinality({k \in KeptOfConfig : k <= i})]
                  = HeaderLine(SetUpCall.config.http_headers[i])
        /\ \A j \in 1..Len(SetUpCall.request.http_headers) :
              Unwrap(Options.http_headers)[Cardinality(KeptOfConfig) + j]
                  = HeaderLine(SetUpCall.request.http_headers[j])

\* Config "k1:v1", "k2:v1"; Request "K1:v2", "K1:v2": the list is k2:v1,
\* K1:v2, K1:v2
C38_Witness ==
    /\ IsSome(setup_call) /\ IsSome(SetUpCall.options)
    /\ Len(SetUpCall.config.http_headers) = 2
    /\ Options.http_headers =
          Some(<<<<107, 50, 58, 118, 49>>, <<75, 49, 58, 118, 50>>, <<75, 49, 58, 118, 50>>>>)

\* C39: the set-up asks the transport for compressed responses exactly when
\* http_compression is enabled in the Config.
C39_CompressionAsConfigured ==
    (IsSome(setup_call) /\ IsSome(SetUpCall.options)) =>
        (IsSome(Options.accept_encoding) <=> SetUpCall.config.http_compression)
====
